---- MODULE Spec2Model ----
(***************************************************************************)
(* A model of the real-time quote pipeline of the portfolio dashboard:     *)
(* the /ws/quotes session (routers/websocket.py, websocket_quotes), the    *)
(* Distributor task it owns (stream_quotes_with_alerts) and the provider   *)
(* streams the Distributor consumes (providers/mock.py, binance.py), and   *)
(* on their own the alert evaluator, the providers' get_quote, the polling *)
(* stream of providers/polygon.py, the routing of providers/mixed.py and   *)
(* the notification tasks of services/alert_monitor.py.                    *)
(*                                                                         *)
(* asyncio runs the code between two awaits atomically, so every action    *)
(* below is one such run of one task: from the await that resumed it to    *)
(* the await that suspends it next.                                        *)
(***************************************************************************)
EXTENDS Integers, Sequences, FiniteSets, TLC

\* ------------------------------------------------------------------ bounds
MaxSymbolsLen == 2
MaxTasks == 2
MaxRules == 2
MaxFailures == 8
MaxElapsed == 6
MaxMixedLen == 3
MaxInFlight == 3

\* ------------------------------------------------------------- vocabulary
Symbols == {"BTCUSDT", "ETHUSDT"}

\* An element of a "symbols" JSON array that is itself an array or an object:
\* json.loads turns it into a list or a dict, which set.add / set.discard
\* reject with TypeError (unhashable type).
Unhashable == "UNHASHABLE"

None == 0

ProviderKinds == {"mock", "binance"}

Range(s) == {s[i] : i \in DOMAIN s}

\* The value of message.get("symbols", []): a JSON array (iterable, with its
\* items in order) or a value `for symbol in symbols` cannot iterate (a
\* number, true, null).
ItemSeqs == UNION {[1..n -> Symbols \cup {Unhashable}] : n \in 0..MaxSymbolsLen}

DefaultSymbols == [iterable |-> TRUE, items |-> <<>>]

NotIterable == [iterable |-> FALSE, items |-> <<>>]

SymbolsValues == [iterable : {TRUE}, items : ItemSeqs] \cup {NotIterable}

\* The text frames a client can send, by what json.loads and the two .get
\* calls make of them.
ClientMessages ==
    {[json |-> "invalid", action |-> "", symbols |-> DefaultSymbols],
     [json |-> "nonobject", action |-> "", symbols |-> DefaultSymbols]}
    \cup [json : {"object"}, action : {"subscribe", "unsubscribe"}, symbols : SymbolsValues]
    \cup [json : {"object"}, action : {"ping", "other"}, symbols : {DefaultSymbols}]

NoMessage == [json |-> "none", action |-> "", symbols |-> DefaultSymbols]

\* ----------------------------------------------------------------- frames
Frame(type, symbols, symbol, message) ==
    [type |-> type, symbols |-> symbols, symbol |-> symbol, message |-> message]

SubscribedFrame(subs) == Frame("subscribed", subs, "", "")

UnsubscribedFrame(subs) == Frame("unsubscribed", subs, "", "")

PongFrame == Frame("pong", {}, "", "")

InvalidJsonFrame == Frame("error", {}, "", "Invalid JSON")

ExceptionFrame == Frame("error", {}, "", "str(e)")

QuoteFrame(symbol) == Frame("quote", {}, symbol, "")

NoFrame == Frame("none", {}, "", "")

VARIABLES
    pc,                     \* where websocket_quotes is suspended
    msg,                    \* its locals message / action / symbols
    active_subscriptions,   \* its local set active_subscriptions
    stream_task,            \* its local stream_task: None or a task of tasks
    stream_cancel,          \* its local stream_cancel: None or the Event of a task
    tasks,                  \* the Distributor tasks the session has created
    sent,                   \* the frame the last step handed to send_json
    dropped,                \* the symbols of the quotes the last step pulled
                            \* and did not forward
    provider,               \* the kind of the provider get_provider() returned
    previous_prices,        \* AlertEvaluator._previous_prices
    alert_rules,            \* the rows of the alert storage, in query order
    ev,                     \* the last call of the evaluator: its quote and result
    latest_prices,          \* the provider's _latest_prices
    api_key,                \* PolygonProvider.api_key is set
    conn,                   \* BinanceProvider.stream: where it is suspended, its
                            \* reconnect_delay, the length of its last sleep and
                            \* the failures since the last successful connection
    received,               \* the inbound frame the stream's last step read
    emitted,                \* the quote the stream's last step yielded
    gq,                     \* the get_quote call in progress or last finished
    poll,                   \* PolygonProvider.stream: where it is suspended, its
                            \* subscriptions and its place in them
    mixed,                  \* the last call of MixedProvider: its arguments, the
                            \* groups it formed and how it came out
    deliveries,             \* AlertMonitor._active_tasks: the notification tasks
                            \* that are not done, in the order of their creation
    webhook_url,            \* SlackNotifier.webhook_url is set
    posted                  \* what the last step of a notification task came to

sessionVars == <<pc, msg, active_subscriptions, stream_task, stream_cancel,
                 tasks, sent, dropped, provider>>

\* The state of AlertMonitor.evaluator and of the alert storage it reads.
evaluatorVars == <<previous_prices, alert_rules, ev>>

\* The state of one BinanceProvider or PolygonProvider instance.
sourceVars == <<latest_prices, api_key, conn, received, emitted, gq>>

\* The state of a PolygonProvider's stream, of a MixedProvider and of the
\* notification tasks of the AlertMonitor.
pollVars == <<poll>>

compositeVars == <<mixed>>

notifierVars == <<deliveries, webhook_url, posted>>

serviceVars == <<pollVars, compositeVars, notifierVars>>

componentVars == <<evaluatorVars, sourceVars, serviceVars>>

vars == <<sessionVars, componentVars>>

\* What a step hands to websocket.send_json: one frame, or none (NoFrame).
Sends(frame) ==
    /\ sent' = frame
    /\ dropped' = {}

\* ------------------------------------------------------------------ tasks
\* asyncio.create_task(stream_quotes_with_alerts(...)) with a fresh Event:
\* the coroutine has not run yet.
NewTask ==
    [state |-> "created", must_cancel |-> FALSE, cancel_event |-> FALSE,
     subs |-> <<>>, phase |-> "unstarted", idx |-> 0]

\* A slot that holds no task: none was created in it, or the one it held has
\* been collected.
NoTask == [NewTask EXCEPT !.state = "none"]

TaskIds == 1..MaxTasks

\* A Distributor is running from its creation to its termination.
Running == {t \in TaskIds : tasks[t].state \notin {"none", "done"}}

\* The provider stream of task t holds an upstream connection.
HandleOpen(t) == provider = "binance" /\ tasks[t].phase = "open"

OpenHandles == {t \in TaskIds : HandleOpen(t)}

\* The async generators of task t have been started and not yet closed.
StreamLive(t) == tasks[t].phase \notin {"unstarted", "closed"}


\* ---------------------------------------------------------------- session
\* `for symbol in symbols: active_subscriptions.add(symbol)`: the items are
\* added one by one; iterating a non-iterable value, or adding an unhashable
\* item, raises TypeError and leaves the items added so far in the set.
RECURSIVE AddItemsMutant(_, _)
AddItemsMutant(subs, items) ==
    IF items = <<>> THEN [subs |-> subs, raised |-> FALSE]
    ELSE IF Head(items) = Unhashable THEN [subs |-> subs, raised |-> TRUE]
    ELSE AddItemsMutant({Head(items)}, Tail(items))

RECURSIVE AddItems(_, _)
AddItems(subs, items) ==
    IF items = <<>> THEN [subs |-> subs, raised |-> FALSE]
    ELSE IF Head(items) = Unhashable THEN [subs |-> subs, raised |-> TRUE]
    ELSE AddItems(subs \cup {Head(items)}, Tail(items))

AddSymbols(subs, symbols) ==
    IF symbols.iterable THEN AddItems(subs, symbols.items)
    ELSE [subs |-> subs, raised |-> TRUE]

\* `for symbol in symbols: active_subscriptions.discard(symbol)`.
RECURSIVE DiscardItemsMutant(_, _)
DiscardItemsMutant(subs, items) ==
    IF items = <<>> THEN [subs |-> subs, raised |-> FALSE]
    ELSE IF Head(items) = Unhashable THEN [subs |-> subs, raised |-> TRUE]
    ELSE DiscardItemsMutant(subs \ {Head(items)}, <<>>)

RECURSIVE DiscardItems(_, _)
DiscardItems(subs, items) ==
    IF items = <<>> THEN [subs |-> subs, raised |-> FALSE]
    ELSE IF Head(items) = Unhashable THEN [subs |-> subs, raised |-> TRUE]
    ELSE DiscardItems(subs \ {Head(items)}, Tail(items))

DiscardSymbolsMutant(subs, symbols) == [subs |-> subs, raised |-> TRUE]

DiscardSymbols(subs, symbols) ==
    IF symbols.iterable THEN DiscardItems(subs, symbols.items)
    ELSE [subs |-> subs, raised |-> TRUE]

\* stream_cancel.set(); stream_task.cancel(). cancel() on a finished task
\* does nothing; on a live one the task's next step raises CancelledError at
\* the await it is suspended in.
CancelTask(ts, t) ==
    [ts EXCEPT ![t].cancel_event = TRUE,
               ![t].must_cancel = (ts[t].state # "done")]

\* `await stream_task` returns (or raises the CancelledError the session
\* swallows) once the task has finished.
TaskDoneMutant(t) == TRUE

TaskDone(t) == tasks[t].state = "done"

\* A slot a new task can take: it is empty, or its task has finished and
\* left no generator behind (the session's reference to it is overwritten by
\* the assignment that creates the new task).
Free(t) ==
    \/ tasks[t].state = "none"
    \/ tasks[t].state = "done" /\ ~StreamLive(t)

\* stream_cancel = asyncio.Event(); stream_task = asyncio.create_task(...)
StartStream ==
    /\ \E t \in TaskIds : Free(t)
    /\ LET t == CHOOSE u \in TaskIds : Free(u) /\ \A v \in TaskIds : Free(v) => u <= v
       IN /\ tasks' = [tasks EXCEPT ![t] = NewTask]
          /\ stream_task' = t
          /\ stream_cancel' = t

\* `if active_subscriptions:` start a new stream task.
StartStreamIfSubscribedMutant == UNCHANGED <<tasks, stream_task, stream_cancel>>

StartStreamIfSubscribed ==
    IF active_subscriptions # {}
    THEN StartStream
    ELSE UNCHANGED <<tasks, stream_task, stream_cancel>>

\* data = await websocket.receive_text() returned a frame.
Received(m) ==
    /\ pc = "recv"
    /\ msg' = m

\* json.loads(data) raises JSONDecodeError: the handler sends the error frame.
OnJSONDecodeErrorMutant ==
    /\ Sends(InvalidJsonFrame)
    /\ pc' = "err_json"
    /\ tasks' = IF stream_task # None THEN CancelTask(tasks, stream_task) ELSE tasks
    /\ UNCHANGED <<active_subscriptions, stream_task, stream_cancel,
                   provider, componentVars>>

OnJSONDecodeError ==
    /\ Sends(InvalidJsonFrame)
    /\ pc' = "err_json"
    /\ UNCHANGED <<active_subscriptions, stream_task, stream_cancel, tasks,
                   provider, componentVars>>

RecvInvalidJson ==
    \E m \in ClientMessages :
        /\ m.json = "invalid"
        /\ Received(m)
        /\ OnJSONDecodeError

\* json.loads returned a list, a number, a string or None: message.get raises
\* AttributeError, which `except Exception` answers with an error frame.
RecvNonObject ==
    \E m \in ClientMessages :
        /\ m.json = "nonobject"
        /\ Received(m)
        /\ Sends(ExceptionFrame)
        /\ pc' = "err_exc"
        /\ UNCHANGED <<active_subscriptions, stream_task, stream_cancel, tasks,
                       provider, componentVars>>

\* action == "subscribe", up to the await of the acknowledgement's send_json.
RecvSubscribe ==
    \E m \in ClientMessages :
        /\ m.json = "object" /\ m.action = "subscribe"
        /\ Received(m)
        /\ LET r == AddSymbols(active_subscriptions, m.symbols) IN
            /\ active_subscriptions' = r.subs
            /\ IF r.raised
               THEN /\ Sends(ExceptionFrame)
                    /\ pc' = "err_exc"
               ELSE /\ Sends(SubscribedFrame(r.subs))
                    /\ pc' = "sub_ack"
        /\ UNCHANGED <<stream_task, stream_cancel, tasks, provider, componentVars>>

\* The acknowledgement's send_json returned: cancel the running stream task
\* and await it, or go straight to the restart.
SubscribeAcked ==
    /\ pc = "sub_ack"
    /\ IF stream_task # None
       THEN /\ tasks' = CancelTask(tasks, stream_task)
            /\ pc' = "sub_await"
            /\ UNCHANGED <<stream_task, stream_cancel>>
            /\ msg' = msg
       ELSE /\ StartStreamIfSubscribed
            /\ pc' = "recv"
            /\ msg' = NoMessage
    /\ Sends(NoFrame)
    /\ UNCHANGED <<active_subscriptions, provider, componentVars>>

\* `await stream_task` returned in the subscribe branch.
SubscribeAwaited ==
    /\ pc = "sub_await"
    /\ TaskDone(stream_task)
    /\ StartStreamIfSubscribed
    /\ pc' = "recv"
    /\ msg' = NoMessage
    /\ Sends(NoFrame)
    /\ UNCHANGED <<active_subscriptions, provider, componentVars>>

\* action == "unsubscribe", up to the await of the acknowledgement's send_json.
RecvUnsubscribe ==
    \E m \in ClientMessages :
        /\ m.json = "object" /\ m.action = "unsubscribe"
        /\ Received(m)
        /\ LET r == DiscardSymbols(active_subscriptions, m.symbols) IN
            /\ active_subscriptions' = r.subs
            /\ IF r.raised
               THEN /\ Sends(ExceptionFrame)
                    /\ pc' = "err_exc"
               ELSE /\ Sends(UnsubscribedFrame(r.subs))
                    /\ pc' = "unsub_ack"
        /\ UNCHANGED <<stream_task, stream_cancel, tasks, provider, componentVars>>

\* The acknowledgement's send_json returned: restart, stop, or nothing.
UnsubscribeAcked ==
    /\ pc = "unsub_ack"
    /\ IF stream_task # None /\ active_subscriptions # {}
       THEN /\ tasks' = CancelTask(tasks, stream_task)
            /\ pc' = "unsub_await_restart"
            /\ msg' = msg
       ELSE IF active_subscriptions = {} /\ stream_task # None
       THEN /\ tasks' = CancelTask(tasks, stream_task)
            /\ pc' = "unsub_await_stop"
            /\ msg' = msg
       ELSE /\ tasks' = tasks
            /\ pc' = "recv"
            /\ msg' = NoMessage
    /\ Sends(NoFrame)
    /\ UNCHANGED <<active_subscriptions, stream_task, stream_cancel, provider, componentVars>>

\* `await stream_task` returned in the restart branch of unsubscribe.
UnsubscribeAwaitedRestart ==
    /\ pc = "unsub_await_restart"
    /\ TaskDone(stream_task)
    /\ StartStream
    /\ pc' = "recv"
    /\ msg' = NoMessage
    /\ Sends(NoFrame)
    /\ UNCHANGED <<active_subscriptions, provider, componentVars>>

\* `await stream_task` returned in the stop branch of unsubscribe.
UnsubscribeAwaitedStop ==
    /\ pc = "unsub_await_stop"
    /\ TaskDone(stream_task)
    /\ stream_task' = None
    /\ stream_cancel' = None
    /\ pc' = "recv"
    /\ msg' = NoMessage
    /\ Sends(NoFrame)
    /\ UNCHANGED <<active_subscriptions, tasks, provider, componentVars>>

\* action == "ping": the keep-alive reply.
OnPingMutant ==
    /\ Sends(PongFrame)
    /\ pc' = "pong"
    /\ tasks' = IF stream_task # None THEN CancelTask(tasks, stream_task) ELSE tasks
    /\ UNCHANGED <<active_subscriptions, stream_task, stream_cancel,
                   provider, componentVars>>

OnPing ==
    /\ Sends(PongFrame)
    /\ pc' = "pong"
    /\ UNCHANGED <<active_subscriptions, stream_task, stream_cancel, tasks,
                   provider, componentVars>>

RecvPing ==
    \E m \in ClientMessages :
        /\ m.json = "object" /\ m.action = "ping"
        /\ Received(m)
        /\ OnPing

\* Any other action (or none): none of the three branches is taken, there is
\* no else branch, and the loop reads again; the message stays in `message`
\* until the next one is read.
OnOtherActionMutant ==
    /\ Sends(ExceptionFrame)
    /\ pc' = "err_exc"
    /\ UNCHANGED <<active_subscriptions, stream_task, stream_cancel, tasks,
                   provider, componentVars>>

OnOtherAction ==
    /\ Sends(NoFrame)
    /\ pc' = "recv"
    /\ UNCHANGED <<active_subscriptions, stream_task, stream_cancel, tasks,
                   provider, componentVars>>

RecvOther ==
    \E m \in ClientMessages :
        /\ m.json = "object" /\ m.action = "other"
        /\ Received(m)
        /\ OnOtherAction

\* The send_json of a pong or of an error frame returned: back to the loop.
ReplySent ==
    /\ pc \in {"pong", "err_json", "err_exc"}
    /\ pc' = "recv"
    /\ msg' = NoMessage
    /\ Sends(NoFrame)
    /\ UNCHANGED <<active_subscriptions, stream_task, stream_cancel, tasks,
                   provider, componentVars>>

\* receive_text raised WebSocketDisconnect: cancel the stream task and return.
OnDisconnectMutant ==
    /\ pc = "recv"
    /\ pc' = "closed"
    /\ Sends(NoFrame)
    /\ UNCHANGED <<msg, active_subscriptions, stream_task, stream_cancel, tasks,
                   provider, componentVars>>

OnDisconnect ==
    /\ pc = "recv"
    /\ pc' = "closed"
    /\ tasks' = IF stream_task # None THEN CancelTask(tasks, stream_task) ELSE tasks
    /\ Sends(NoFrame)
    /\ UNCHANGED <<msg, active_subscriptions, stream_task, stream_cancel,
                   provider, componentVars>>


\* ---------------------------------------------------------- closed client
\* What websocket.send_json raises on a connection the client has closed:
\* WebSocketDisconnect, or an exception of another class (RuntimeError once
\* the close has been recorded, or the server's own error), by the version
\* of the framework.
SendErrors == {"WebSocketDisconnect", "RuntimeError"}

\* The send_json of an acknowledgement or of a pong raised: the statement is
\* inside the inner try, every class send_json raises is an Exception, so
\* `except Exception` runs and awaits the send of an error frame on the
\* closed connection; the rest of the branch is skipped. Nothing reaches the
\* client.
ReplySendFailed ==
    /\ pc \in {"sub_ack", "unsub_ack", "pong"}
    /\ pc' = "err_closed"
    /\ Sends(NoFrame)
    /\ UNCHANGED <<msg, active_subscriptions, stream_task, stream_cancel, tasks,
                   provider, componentVars>>

\* The send_json of an error frame raised inside one of the two except
\* clauses of the inner try: the exception leaves the loop. The outer
\* `except WebSocketDisconnect` cancels the stream task and returns; an
\* exception of another class leaves websocket_quotes with nothing cancelled.
ErrorSendFailed ==
    /\ pc \in {"err_json", "err_exc", "err_closed"}
    /\ \E raised \in SendErrors :
        IF raised = "WebSocketDisconnect"
        THEN /\ pc' = "closed"
             /\ tasks' = IF stream_task # None
                          THEN CancelTask(tasks, stream_task) ELSE tasks
        ELSE /\ pc' = "raised"
             /\ tasks' = tasks
    /\ Sends(NoFrame)
    /\ UNCHANGED <<msg, active_subscriptions, stream_task, stream_cancel,
                   provider, componentVars>>

\* list(subscriptions): the symbols of the set, in some order.
ListsOf(S) == {l \in [1..Cardinality(S) -> S] : Range(l) = S}

\* `if quote.symbol in subscriptions`: subscriptions is the session's own
\* set object, so the test reads the set as it is now.
StillSubscribedMutant(t, symbol) == TRUE

StillSubscribed(t, symbol) == symbol \in active_subscriptions

\* The body of `async for quote in ...` for one quote of a stream that then
\* waits at `at`: break when the Event is set, send the quote frame when the
\* symbol is still subscribed (suspending in send_json), else pull again.
\* Gives the task afterwards, the symbol sent ("" when none) and the symbols
\* pulled and not sent.
OnQuote(t, task, symbol, at) ==
    IF task.cancel_event
    THEN [task |-> [task EXCEPT !.state = "done", !.phase = at, !.subs = <<>>,
                                !.idx = 0],
          sent |-> "", dropped |-> {symbol}]
    ELSE IF StillSubscribed(t, symbol)
    THEN [task |-> [task EXCEPT !.state = "send", !.phase = at],
          sent |-> symbol, dropped |-> {}]
    ELSE [task |-> [task EXCEPT !.state = "pull", !.phase = at],
          sent |-> "", dropped |-> {symbol}]

\* A step of the provider stream that yields no quote.
NoQuote(task) == [task |-> task, sent |-> "", dropped |-> {}]

\* MockProvider.stream resumed after the idx-th symbol of the batch: get_quote
\* never suspends, so the quotes of the batch follow one another until one is
\* sent or the batch ends in asyncio.sleep(1).
RECURSIVE MockResume(_, _, _)
MockResume(t, task, idx) ==
    IF idx >= Len(task.subs)
    THEN NoQuote([task EXCEPT !.state = "pull", !.phase = "sleep", !.idx = 0])
    ELSE LET r == OnQuote(t, [task EXCEPT !.idx = idx + 1], task.subs[idx + 1], "batch")
         IN IF r.task.state = "pull"
            THEN LET rest == MockResume(t, r.task, idx + 1)
                 IN [rest EXCEPT !.dropped = @ \cup r.dropped]
            ELSE r

\* A step of the task that leaves it as r.task, with r.sent forwarded.
Forward(t, r) ==
    /\ tasks' = [tasks EXCEPT ![t] = r.task]
    /\ sent' = IF r.sent # "" THEN QuoteFrame(r.sent) ELSE NoFrame
    /\ dropped' = r.dropped
    /\ UNCHANGED <<pc, msg, active_subscriptions, stream_task, stream_cancel,
                   provider, componentVars>>

\* The first step of the task: list(subscriptions) is taken now, the two
\* generators start, and the provider stream runs to its first await.
DistStart(t) ==
    /\ tasks[t].state = "created"
    /\ ~tasks[t].must_cancel
    /\ \E order \in ListsOf(active_subscriptions) :
        LET task == [tasks[t] EXCEPT !.subs = order] IN
        IF provider = "mock"
        THEN Forward(t, MockResume(t, task, 0))
        ELSE IF order = <<>>
        THEN Forward(t, NoQuote([task EXCEPT !.state = "done", !.phase = "closed"]))
        ELSE Forward(t, NoQuote([task EXCEPT !.state = "pull", !.phase = "connecting"]))

\* The send_json of a quote frame returned: the loop pulls the next quote.
DistSendReturned(t) ==
    /\ tasks[t].state = "send"
    /\ ~tasks[t].must_cancel
    /\ IF provider = "mock"
       THEN Forward(t, MockResume(t, tasks[t], tasks[t].idx))
       ELSE Forward(t, NoQuote([tasks[t] EXCEPT !.state = "pull"]))

\* MockProvider.stream: asyncio.sleep(1) returned, the next batch starts.
MockSleepElapsed(t) ==
    /\ provider = "mock"
    /\ tasks[t].state = "pull" /\ tasks[t].phase = "sleep"
    /\ ~tasks[t].must_cancel
    /\ Forward(t, MockResume(t, tasks[t], 0))

\* BinanceProvider.stream: websockets.connect succeeded.
BinanceConnected(t) ==
    /\ provider = "binance"
    /\ tasks[t].state = "pull" /\ tasks[t].phase = "connecting"
    /\ ~tasks[t].must_cancel
    /\ Forward(t, NoQuote([tasks[t] EXCEPT !.phase = "open"]))

\* BinanceProvider.stream: websockets.connect raised; sleep before retrying.
BinanceConnectFailed(t) ==
    /\ provider = "binance"
    /\ tasks[t].state = "pull" /\ tasks[t].phase = "connecting"
    /\ ~tasks[t].must_cancel
    /\ Forward(t, NoQuote([tasks[t] EXCEPT !.phase = "backoff"]))

\* BinanceProvider.stream: the connection was lost while waiting for a
\* message; `async with` releases it, then the stream sleeps.
BinanceConnectionLostMutant(t) ==
    /\ provider = "binance"
    /\ tasks[t].state = "pull" /\ tasks[t].phase = "open"
    /\ ~tasks[t].must_cancel
    /\ tasks' = [tasks EXCEPT ![t] = [@ EXCEPT !.state = "done", !.phase = "closed",
                                                !.subs = <<>>, !.idx = 0]]
    /\ Sends(Frame("error", {}, "", "Stream error: str(e)"))
    /\ UNCHANGED <<pc, msg, active_subscriptions, stream_task, stream_cancel,
                   provider, componentVars>>

BinanceConnectionLost(t) ==
    /\ provider = "binance"
    /\ tasks[t].state = "pull" /\ tasks[t].phase = "open"
    /\ ~tasks[t].must_cancel
    /\ Forward(t, NoQuote([tasks[t] EXCEPT !.phase = "backoff"]))

\* BinanceProvider.stream: the upstream closed the connection normally; the
\* `async for` ends and the loop connects again at once.
BinanceClosedOK(t) ==
    /\ provider = "binance"
    /\ tasks[t].state = "pull" /\ tasks[t].phase = "open"
    /\ ~tasks[t].must_cancel
    /\ Forward(t, NoQuote([tasks[t] EXCEPT !.phase = "connecting"]))

\* BinanceProvider.stream: asyncio.sleep(reconnect_delay) returned.
BinanceBackoffElapsed(t) ==
    /\ provider = "binance"
    /\ tasks[t].state = "pull" /\ tasks[t].phase = "backoff"
    /\ ~tasks[t].must_cancel
    /\ Forward(t, NoQuote([tasks[t] EXCEPT !.phase = "connecting"]))

\* BinanceProvider.stream: a trade message of a subscribed stream arrived and
\* its quote is yielded to the Distributor.
BinanceTrade(t) ==
    /\ provider = "binance"
    /\ tasks[t].state = "pull" /\ tasks[t].phase = "open"
    /\ ~tasks[t].must_cancel
    /\ \E symbol \in Range(tasks[t].subs) :
        Forward(t, OnQuote(t, tasks[t], symbol, "open"))

\* The task's step after cancel(): CancelledError is raised at the await the
\* task is suspended in. Raised in the pull, it unwinds both generators
\* (closing the Binance connection on the way) before the task's
\* `except asyncio.CancelledError` ends it. Raised in send_json, it ends the
\* task with both generators still suspended at their yield. A task that
\* never started is ended without running.
DistCancelled(t) ==
    /\ tasks[t].state # "done"
    /\ tasks[t].must_cancel
    /\ tasks' = [tasks EXCEPT ![t] =
            IF tasks[t].state = "send"
            THEN [@ EXCEPT !.state = "done", !.must_cancel = FALSE,
                           !.subs = <<>>, !.idx = 0]
            ELSE IF tasks[t].state = "pull"
            THEN [@ EXCEPT !.state = "done", !.must_cancel = FALSE,
                           !.phase = "closed", !.subs = <<>>, !.idx = 0]
            ELSE [@ EXCEPT !.state = "done", !.must_cancel = FALSE]]
    /\ Sends(NoFrame)
    /\ UNCHANGED <<pc, msg, active_subscriptions, stream_task, stream_cancel,
                   provider, componentVars>>

\* The send_json of a quote frame raised on a connection the session has
\* found closed: `except Exception` tries to send a "Stream error" frame,
\* that send raises too and is swallowed by the bare except, and the task
\* ends with both generators still suspended at their yield.
DistSendFailed(t) ==
    /\ pc \in {"err_closed", "closed", "raised"}
    /\ tasks[t].state = "send"
    /\ ~tasks[t].must_cancel
    /\ tasks' = [tasks EXCEPT ![t] = [@ EXCEPT !.state = "done", !.subs = <<>>,
                                                !.idx = 0]]
    /\ Sends(NoFrame)
    /\ UNCHANGED <<pc, msg, active_subscriptions, stream_task, stream_cancel,
                   provider, componentVars>>

\* The generators a finished task left suspended: the event loop's
\* async-generator finalizer closes them (aclose) in tasks of its own, which
\* run after the callbacks of the finished task, so after a session that
\* awaits the task has resumed.
AsyncGenFinalize(t) ==
    /\ tasks[t].state = "done"
    /\ StreamLive(t)
    /\ ~(pc \in {"sub_await", "unsub_await_restart", "unsub_await_stop"}
         /\ stream_task = t)
    /\ tasks' = [tasks EXCEPT ![t] = [@ EXCEPT !.phase = "closed", !.subs = <<>>,
                                                !.idx = 0]]
    /\ Sends(NoFrame)
    /\ UNCHANGED <<pc, msg, active_subscriptions, stream_task, stream_cancel,
                   provider, componentVars>>


\* -------------------------------------------------------------- evaluator
\* Quote.price and the threshold of a price rule, in thousandths of a unit
\* (101500 is 101.5); the threshold of a pct_move rule in percent.
Prices == {100000, 101500, 102000, 103000}

PriceThresholds == {102000}

PctThresholds == {2}

\* AlertRule (the id plays no part in the evaluation). kind is a free string:
\* the three kinds the evaluator knows and one it does not.
AlertRules ==
    [symbol : Symbols, kind : {"price_above", "price_below"},
     threshold : PriceThresholds, enabled : BOOLEAN]
    \cup [symbol : Symbols, kind : {"pct_move", "volume_spike"},
          threshold : PctThresholds, enabled : BOOLEAN]

RuleLists == UNION {[1..n -> AlertRules] : n \in 0..MaxRules}

Quotes == [symbol : Symbols, price : Prices]

\* No entry for the symbol in a dict of prices.
NoPrice == 0

Abs(x) == IF x < 0 THEN -x ELSE x

\* `if not rule.enabled: continue` and `if rule.symbol != quote.symbol: continue`.
SkippedMutant(rule, quote) == ~rule.enabled

Skipped(rule, quote) == ~rule.enabled \/ rule.symbol # quote.symbol

\* `quote.price >= rule.threshold` and `quote.price <= rule.threshold`.
PriceReachedMutant(kind, price, threshold) ==
    IF kind = "price_above" THEN price > threshold ELSE price < threshold

PriceReached(kind, price, threshold) ==
    IF kind = "price_above" THEN price >= threshold ELSE price <= threshold

\* `prev_price > 0` and `abs((price - prev_price) / prev_price) * 100 >=
\* threshold`, in exact arithmetic (both sides multiplied by prev_price).
PctMovedMutant(price, prev_price, threshold) ==
    prev_price > 0 /\ (price - prev_price) * 100 >= threshold * prev_price

PctMoved(price, prev_price, threshold) ==
    prev_price > 0 /\ Abs(price - prev_price) * 100 >= threshold * prev_price

\* AlertEvaluator.evaluate: the loop over the rules from the i-th on, with the
\* rules triggered so far and the previous prices as the loop has left them.
RECURSIVE EvaluateFrom(_, _, _, _, _)
EvaluateFrom(prev, quote, rules, i, triggered) ==
    IF i > Len(rules)
    THEN [triggered |-> triggered, previous_prices |-> prev]
    ELSE LET rule == rules[i] IN
         IF Skipped(rule, quote)
         THEN EvaluateFrom(prev, quote, rules, i + 1, triggered)
         ELSE IF rule.kind \in {"price_above", "price_below"}
         THEN EvaluateFrom(prev, quote, rules, i + 1,
                  IF PriceReached(rule.kind, quote.price, rule.threshold)
                  THEN Append(triggered, rule) ELSE triggered)
         ELSE IF rule.kind = "pct_move"
         THEN EvaluateFrom([prev EXCEPT ![quote.symbol] = quote.price],
                  quote, rules, i + 1,
                  IF /\ prev[quote.symbol] # NoPrice
                     /\ PctMoved(quote.price, prev[quote.symbol], rule.threshold)
                  THEN Append(triggered, rule) ELSE triggered)
         ELSE EvaluateFrom(prev, quote, rules, i + 1, triggered)

Evaluate(prev, quote, rules) == EvaluateFrom(prev, quote, rules, 1, <<>>)

\* AlertStorage.get_by_symbol: the enabled rows of the symbol.
RECURSIVE GetBySymbol(_, _)
GetBySymbol(rows, symbol) ==
    IF rows = <<>> THEN <<>>
    ELSE LET rest == GetBySymbol(Tail(rows), symbol) IN
         IF Head(rows).symbol = symbol /\ Head(rows).enabled
         THEN <<Head(rows)>> \o rest ELSE rest

\* The record of a call: which entry point, its quote, the rules the
\* evaluator was given and the rules it returned.
NoEval == [op |-> "none", quote |-> [symbol |-> "", price |-> NoPrice],
           rules |-> <<>>, triggered |-> <<>>]

\* evaluator.evaluate(quote, rules) called with the stored rules as they are.
EvaluateCall ==
    \E quote \in Quotes :
        LET r == Evaluate(previous_prices, quote, alert_rules) IN
        /\ previous_prices' = r.previous_prices
        /\ ev' = [op |-> "evaluate", quote |-> quote, rules |-> alert_rules,
                  triggered |-> r.triggered]
        /\ UNCHANGED <<alert_rules, sessionVars, sourceVars, serviceVars>>

\* AlertMonitor._evaluate_quote: the alert-evaluation step of a quote on its
\* way through monitor_quotes. Without enabled rules for the symbol it
\* returns before the evaluator is called.
EvaluateQuote ==
    \E quote \in Quotes :
        LET alerts == GetBySymbol(alert_rules, quote.symbol)
            r == Evaluate(previous_prices, quote, alerts)
        IN /\ previous_prices' =
                IF alerts = <<>> THEN previous_prices ELSE r.previous_prices
           /\ ev' = [op |-> "_evaluate_quote", quote |-> quote, rules |-> alerts,
                     triggered |-> IF alerts = <<>> THEN <<>> ELSE r.triggered]
           /\ UNCHANGED <<alert_rules, sessionVars, sourceVars, serviceVars>>


\* --------------------------------------------------------------- notifier
\* A notification task of _active_tasks: created by asyncio.create_task and
\* not yet run (created), or suspended in session.post (posting); attempts
\* counts the posts it has issued. A task that is done has been discarded
\* from the set by its done callback.
NewDelivery == [state |-> "created", attempts |-> 0]

Remove(seq, i) == SubSeq(seq, 1, i - 1) \o SubSeq(seq, i + 1, Len(seq))

\* `for alert in triggered: task = asyncio.create_task(...);
\* self._active_tasks.add(task)`: one task per triggered alert, none awaited.
DispatchMutant(tasks_, triggered) ==
    tasks_ \o (IF triggered = <<>> THEN <<>> ELSE <<NewDelivery>>)

Dispatch(tasks_, triggered) ==
    tasks_ \o [k \in 1..Len(triggered) |-> NewDelivery]

\* What becomes of session.post: status 200, another status, or an exception
\* of the request.
PostOutcomes == {"ok", "bad_status", "exception"}

\* send_alert after the post: True on 200, False on another status or on an
\* exception; _send_notification returns in each case and the task is done.
OnPostedMutant(delivery, outcome) ==
    IF outcome = "ok" THEN [delivery EXCEPT !.state = "done"]
    ELSE [delivery EXCEPT !.state = "created"]

OnPosted(delivery, outcome) == [delivery EXCEPT !.state = "done"]

\* The tasks that are not done, in their order.
Pending(tasks_) == SelectSeq(tasks_, LAMBDA d : d.state # "done")

\* `alerts = alert_storage.get_by_symbol(quote.symbol)`: the stored rules the
\* quote is evaluated against, whoever is still subscribed to its symbol.
AlertsMutant(rows, quote) ==
    IF quote.symbol \in active_subscriptions
    THEN GetBySymbol(rows, quote.symbol) ELSE <<>>

Alerts(rows, quote) == GetBySymbol(rows, quote.symbol)

\* monitor_quotes between taking a quote from the provider and yielding it:
\* `await self._evaluate_quote(quote)`, which returns before the evaluator is
\* called when the symbol has no enabled rules. Gives the previous prices
\* and the record of the call it leaves.
MonitoredMutant(prev, rows, quote) == [previous_prices |-> prev, ev |-> NoEval]

Monitored(prev, rows, quote) ==
    LET alerts == Alerts(rows, quote)
        e == Evaluate(prev, quote, alerts)
    IN [previous_prices |-> IF alerts = <<>> THEN prev ELSE e.previous_prices,
        ev |-> [op |-> "_evaluate_quote", quote |-> quote, rules |-> alerts,
                triggered |-> IF alerts = <<>> THEN <<>> ELSE e.triggered]]

\* One iteration of `async for quote in alert_monitor.monitor_quotes(...)`:
\* the provider yields a quote, _evaluate_quote evaluates the enabled rules
\* of the symbol and creates a task for every triggered alert, the quote is
\* yielded on and the Distributor forwards it. Nothing in between suspends.
MonitorQuote(t) ==
    /\ tasks[t].state = "pull" /\ tasks[t].phase = "open"
    /\ ~tasks[t].must_cancel
    /\ \E quote \in Quotes :
        LET m == Monitored(previous_prices, alert_rules, quote)
            triggered == m.ev.triggered
            r == OnQuote(t, tasks[t], quote.symbol, "open")
        IN /\ quote.symbol \in Range(tasks[t].subs)
           /\ Len(deliveries) + Len(triggered) <= MaxInFlight
           /\ previous_prices' = m.previous_prices
           /\ ev' = m.ev
           /\ deliveries' = Dispatch(deliveries, triggered)
           /\ tasks' = [tasks EXCEPT ![t] = r.task]
           /\ sent' = IF r.sent # "" THEN QuoteFrame(r.sent) ELSE NoFrame
           /\ dropped' = r.dropped
    /\ UNCHANGED <<pc, msg, active_subscriptions, stream_task, stream_cancel,
                   provider, alert_rules, webhook_url, posted, sourceVars,
                   pollVars, compositeVars>>

\* A step of a notification task.
NotifierStep(tasks_, outcome) ==
    /\ deliveries' = tasks_
    /\ posted' = outcome
    /\ Sends(NoFrame)
    /\ UNCHANGED <<pc, msg, active_subscriptions, stream_task, stream_cancel,
                   tasks, provider, webhook_url, evaluatorVars, sourceVars,
                   pollVars, compositeVars>>

\* The first step of the i-th task: send_alert returns False at once when no
\* webhook is configured, else it formats the message and posts it.
DeliveryStart(i) ==
    /\ i \in 1..Len(deliveries)
    /\ deliveries[i].state = "created"
    /\ IF webhook_url
       THEN NotifierStep([deliveries EXCEPT ![i] =
                [@ EXCEPT !.state = "posting", !.attempts = @ + 1]], "posting")
       ELSE NotifierStep(Remove(deliveries, i), "not_configured")

\* The post of the i-th task comes to its end.
DeliveryResponse(i) ==
    /\ i \in 1..Len(deliveries)
    /\ deliveries[i].state = "posting"
    /\ \E outcome \in PostOutcomes :
        NotifierStep(Pending([deliveries EXCEPT ![i] = OnPosted(@, outcome)]),
                     outcome)

\* ---------------------------------------------------------------- sources
SourceKinds == {"binance", "polygon"}

\* The prices an upstream reports, in thousandths of a unit.
UpstreamPrices == {100004, 103000}

\* round(price, 2) of a price in thousandths (no price of the model lies
\* halfway between two hundredths).
Round2(price) == ((price + 5) \div 10) * 10

NoPrices == [s \in Symbols |-> NoPrice]

max_reconnect_delay == 60

Min(a, b) == IF a < b THEN a ELSE b

\* BinanceProvider.stream before it is called.
NoStream == [phase |-> "idle", reconnect_delay |-> 1, slept |-> 0, failures |-> 0]

\* The text frames the Binance connection delivers, by what the parsing of
\* lines 107-127 makes of them; symbol and price are the "s" and "p" fields
\* where the frame has them.
StreamFrameKinds ==
    {"unparseable", "no_symbol", "no_price", "no_timestamp", "bad_price", "trade"}

StreamFrames == [kind : StreamFrameKinds, symbol : Symbols, price : UpstreamPrices]

NoStreamFrame == [kind |-> "none", symbol |-> "", price |-> NoPrice]

NoQuoteOut == [symbol |-> "", price |-> NoPrice]

\* The body of `async for message in websocket` for one frame: json.loads,
\* the field checks, float(price_str) and the timestamp conversion all come
\* before the cache is written and the quote is yielded; a frame that fails
\* any of them is skipped.
OnStreamFrameMutant(cache, frame) ==
    IF frame.kind \in {"trade", "no_timestamp"}
    THEN [latest_prices |-> [cache EXCEPT ![frame.symbol] = frame.price],
          emitted |-> IF frame.kind = "trade"
                      THEN [symbol |-> frame.symbol, price |-> Round2(frame.price)]
                      ELSE NoQuoteOut]
    ELSE [latest_prices |-> cache, emitted |-> NoQuoteOut]

OnStreamFrame(cache, frame) ==
    IF frame.kind = "trade"
    THEN [latest_prices |-> [cache EXCEPT ![frame.symbol] = frame.price],
          emitted |-> [symbol |-> frame.symbol, price |-> Round2(frame.price)]]
    ELSE [latest_prices |-> cache, emitted |-> NoQuoteOut]

\* A step of the stream that reads no frame and yields nothing.
StreamStep(c) ==
    /\ conn' = c
    /\ received' = NoStreamFrame
    /\ emitted' = NoQuoteOut
    /\ UNCHANGED <<latest_prices, api_key, gq, sessionVars, evaluatorVars,
                   serviceVars>>

\* websockets.connect succeeded: `reconnect_delay = 1`.
StreamConnectedMutant ==
    /\ provider = "binance"
    /\ conn.phase = "connecting"
    /\ StreamStep([conn EXCEPT !.phase = "open", !.failures = 0])

StreamConnected ==
    /\ provider = "binance"
    /\ conn.phase = "connecting"
    /\ StreamStep([conn EXCEPT !.phase = "open", !.reconnect_delay = 1,
                               !.failures = 0])

\* The failure handlers: `await asyncio.sleep(reconnect_delay)`.
Backoff(c) ==
    [c EXCEPT !.phase = "backoff", !.slept = c.reconnect_delay,
              !.failures = c.failures + 1]

\* websockets.connect raised.
StreamConnectFailed ==
    /\ provider = "binance"
    /\ conn.phase = "connecting"
    /\ conn.failures < MaxFailures
    /\ StreamStep(Backoff(conn))

\* The connection was closed with an error (ConnectionClosedError) or the
\* read raised another exception.
StreamConnectionLost ==
    /\ provider = "binance"
    /\ conn.phase = "open"
    /\ conn.failures < MaxFailures
    /\ StreamStep(Backoff(conn))

\* The upstream closed the connection normally: `async for message in
\* websocket` ends without an exception, `async with` exits and `while True`
\* connects again with no sleep in between.
StreamClosedOK ==
    /\ provider = "binance"
    /\ conn.phase = "open"
    /\ StreamStep([conn EXCEPT !.phase = "connecting"])

\* asyncio.sleep returned: `reconnect_delay = min(reconnect_delay * 2,
\* max_reconnect_delay)` and the loop connects again.
StreamBackoffElapsed ==
    /\ provider = "binance"
    /\ conn.phase = "backoff"
    /\ StreamStep([conn EXCEPT !.phase = "connecting",
            !.reconnect_delay = Min(conn.reconnect_delay * 2, max_reconnect_delay)])

\* A frame arrived on the open connection and the consumer is pulling.
StreamFrame ==
    /\ provider = "binance"
    /\ conn.phase = "open"
    /\ \E frame \in StreamFrames :
        LET r == OnStreamFrame(latest_prices, frame) IN
        /\ received' = frame
        /\ latest_prices' = r.latest_prices
        /\ emitted' = r.emitted
    /\ UNCHANGED <<conn, api_key, gq, sessionVars, evaluatorVars,
                   serviceVars>>

\* ---------------------------------------------------------------- get_quote
\* What an upstream REST request can come to: the request itself fails
\* (network_error), the status is not 200 (bad_status), the body cannot be
\* used (unusable: not JSON, not an object, a price that is no number), the
\* body is valid and reports failure or no positive price (not_ok,
\* no_price), carries a price with a timestamp datetime.fromtimestamp
\* rejects (bad_timestamp), or is a usable answer (ok).
TickerResponses ==
    [kind : {"network_error", "bad_status", "unusable", "ok"},
     price : UpstreamPrices]

LastTradeResponses ==
    [kind : {"network_error", "bad_status", "not_ok", "no_price", "unusable",
             "bad_timestamp", "ok"},
     price : UpstreamPrices]

SnapshotResponses ==
    [kind : {"network_error", "bad_status", "not_ok", "no_price", "unusable",
             "ok"},
     price : UpstreamPrices]

\* A call of get_quote: suspended in its first request (requesting) or in
\* Polygon's fallback request (fallback), or finished with a quote
\* (returned) or an exception (raised); requests counts the upstream
\* requests it has issued.
NoCall == [state |-> "idle", symbol |-> "", price |-> NoPrice, requests |-> 0]

Call(state, symbol, price, requests) ==
    [state |-> state, symbol |-> symbol, price |-> price, requests |-> requests]

\* get_quote up to its first await: the cached price when there is one, the
\* configuration check of Polygon, else the first request.
OnCallMutant(source, configured, cache, symbol) ==
    IF source = "polygon" /\ ~configured
    THEN Call("raised", symbol, NoPrice, 0)
    ELSE Call("requesting", symbol, NoPrice, 1)

OnCall(source, configured, cache, symbol) ==
    IF cache[symbol] # NoPrice
    THEN Call("returned", symbol, cache[symbol], 0)
    ELSE IF source = "polygon" /\ ~configured
    THEN Call("raised", symbol, NoPrice, 0)
    ELSE Call("requesting", symbol, NoPrice, 1)

\* get_quote from the response of a request on: the call and the cache
\* afterwards. Binance caches and returns on a 200 with a price; Polygon
\* caches the price of the last trade before it converts the timestamp, and
\* goes to the snapshot request when the last trade gave no price.
OnResponse(source, cache, call, resp) ==
    LET cached == [cache EXCEPT ![call.symbol] = resp.price]
        returned == Call("returned", call.symbol, Round2(resp.price), call.requests)
        raised == Call("raised", call.symbol, NoPrice, call.requests)
    IN IF resp.kind = "ok"
       THEN [gq |-> returned, latest_prices |-> cached]
       ELSE IF source = "polygon" /\ call.state = "requesting"
               /\ resp.kind = "bad_timestamp"
       THEN [gq |-> raised, latest_prices |-> cached]
       ELSE IF source = "polygon" /\ call.state = "requesting"
               /\ resp.kind \in {"bad_status", "not_ok", "no_price"}
       THEN [gq |-> Call("fallback", call.symbol, NoPrice, call.requests + 1),
             latest_prices |-> cache]
       ELSE [gq |-> raised, latest_prices |-> cache]

ResponsesTo(source, call) ==
    IF source = "binance" THEN TickerResponses
    ELSE IF call.state = "requesting" THEN LastTradeResponses
    ELSE SnapshotResponses

\* get_quote(symbol) is called while no other call is in progress.
GetQuoteCall ==
    /\ gq.state \in {"idle", "returned", "raised"}
    /\ \E symbol \in Symbols :
        gq' = OnCall(provider, api_key, latest_prices, symbol)
    /\ UNCHANGED <<latest_prices, api_key, conn, received, emitted,
                   sessionVars, evaluatorVars, serviceVars>>

\* The request get_quote is suspended in comes to its end.
GetQuoteResponse ==
    /\ gq.state \in {"requesting", "fallback"}
    /\ \E resp \in ResponsesTo(provider, gq) :
        LET r == OnResponse(provider, latest_prices, gq, resp) IN
        /\ gq' = r.gq
        /\ latest_prices' = r.latest_prices
    /\ UNCHANGED <<api_key, conn, received, emitted, sessionVars, evaluatorVars,
                   serviceVars>>

\* ---------------------------------------------------------------- composite
\* The symbols MixedProvider is asked about, as the strings they are.
BTCUSDT == <<"B", "T", "C", "U", "S", "D", "T">>

ETHUSDT == <<"E", "T", "H", "U", "S", "D", "T">>

AAPL == <<"A", "A", "P", "L">>

USDT == <<"U", "S", "D", "T">>

USDTX == <<"U", "S", "D", "T", "X">>

btcusdt == <<"b", "t", "c", "u", "s", "d", "t">>

MixedSymbols == {BTCUSDT, ETHUSDT, AAPL, USDT, USDTX, btcusdt}

\* The lists stream is called with: list(subscriptions) of a set.
MixedSubscriptions ==
    {subs \in UNION {[1..n -> MixedSymbols] : n \in 0..MaxMixedLen} :
        \A i, j \in 1..Len(subs) : subs[i] = subs[j] => i = j}

\* str.endswith.
EndsWith(s, suffix) ==
    /\ Len(s) >= Len(suffix)
    /\ SubSeq(s, Len(s) - Len(suffix) + 1, Len(s)) = suffix

\* `s.endswith("USDT")`.
IsCryptoMutant(symbol) == Len(symbol) >= Len(USDT) /\ SubSeq(symbol, 1, Len(USDT)) = USDT

IsCrypto(symbol) == EndsWith(symbol, USDT)

IsEquity(symbol) == ~IsCrypto(symbol)

\* The two list comprehensions of stream.
CryptoSymbols(subscriptions) == SelectSeq(subscriptions, IsCrypto)

EquitySymbols(subscriptions) == SelectSeq(subscriptions, IsEquity)

\* How the first pull of stream comes out. asyncio.create_task accepts a
\* coroutine only; self._stream_crypto(...) and self._stream_equities(...)
\* are async generators, so the first create_task that is reached raises
\* TypeError before any sub-stream is pulled. With both groups empty no task
\* is created and the generator finishes.
StreamOutcome(crypto_symbols, equity_symbols) ==
    IF crypto_symbols # <<>> THEN "TypeError"
    ELSE IF equity_symbols # <<>> THEN "TypeError"
    ELSE "StopAsyncIteration"

NoMixed == [op |-> "none", subscriptions |-> <<>>, crypto_symbols |-> <<>>,
            equity_symbols |-> <<>>, outcome |-> "none", symbol |-> <<>>,
            delegate |-> "none"]

\* MixedProvider.stream(subscriptions) is called and pulled.
MixedStream ==
    /\ \E subscriptions \in MixedSubscriptions :
        LET crypto_symbols == CryptoSymbols(subscriptions)
            equity_symbols == EquitySymbols(subscriptions)
        IN mixed' = [NoMixed EXCEPT !.op = "stream",
               !.subscriptions = subscriptions,
               !.crypto_symbols = crypto_symbols,
               !.equity_symbols = equity_symbols,
               !.outcome = StreamOutcome(crypto_symbols, equity_symbols)]
    /\ UNCHANGED <<sessionVars, evaluatorVars, sourceVars, pollVars,
                   notifierVars>>

\* MixedProvider.get_quote(symbol), up to the call of the sub-provider.
MixedGetQuote ==
    /\ \E symbol \in MixedSymbols :
        mixed' = [NoMixed EXCEPT !.op = "get_quote", !.symbol = symbol,
            !.delegate = IF IsCrypto(symbol) THEN "binance" ELSE "polygon"]
    /\ UNCHANGED <<sessionVars, evaluatorVars, sourceVars, pollVars,
                   notifierVars>>

\* ------------------------------------------------------------------ polling
\* The sleeps of PolygonProvider.stream, in seconds: after a quote, after a
\* pass over the subscriptions, and after a symbol when no API key is set.
inter_request_delay == 3

inter_cycle_delay == 60

unconfigured_delay == 1

\* The subscriptions a stream is called with: list(active_subscriptions).
PollSubscriptions ==
    {subs \in UNION {[1..n -> Symbols] : n \in 1..MaxSymbolsLen} :
        \A i, j \in 1..Len(subs) : subs[i] = subs[j] => i = j}

\* No request issued yet, and fewer than two fetches that issued one.
NoRequest == -1

\* PolygonProvider.stream. phase is where the generator is suspended: in a
\* request of get_quote (request), at a yield (yield), in one of the sleeps,
\* or finished (ended); i is the place in the subscriptions. skipped is the
\* symbol whose fetch the last step saw fail. since is the time the stream
\* has slept since it last issued a request (counted up to MaxElapsed), gap
\* the value of since when the last fetch issued its first request, and
\* yielded the symbols whose cached answer the stream has yielded.
NoPoll == [phase |-> "idle", subscriptions |-> <<>>, i |-> 0, skipped |-> "",
           since |-> NoRequest, gap |-> NoRequest, yielded |-> {}]

Slept(p, seconds) ==
    IF p.since = NoRequest THEN p
    ELSE [p EXCEPT !.since = Min(p.since + seconds, MaxElapsed)]

\* The stream and the get_quote call after a step, and the quote it yielded.
PollResult(p, call, quote) == [poll |-> p, gq |-> call, emitted |-> quote]

\* The polling loop from the i-th symbol on, up to its next suspension:
\* get_quote returns the cached price without a request when there is one
\* and the quote is yielded; else the first request is issued. After the
\* last symbol the loop sleeps before the next cycle.
Fetch(p, cache, i, call) ==
    IF i > Len(p.subscriptions)
    THEN PollResult([p EXCEPT !.phase = "sleep_cycle", !.i = i], call, NoQuoteOut)
    ELSE LET c == OnCall("polygon", TRUE, cache, p.subscriptions[i]) IN
         IF c.state = "returned"
         THEN PollResult([p EXCEPT !.phase = "yield", !.i = i,
                                   !.yielded = @ \cup {c.symbol}],
                         c, [symbol |-> c.symbol, price |-> c.price])
         ELSE PollResult([p EXCEPT !.phase = "request", !.i = i,
                                   !.gap = p.since, !.since = 0],
                         c, NoQuoteOut)

\* `except Exception as e: print(...); continue`: the loop goes on with the
\* next symbol, without a sleep.
OnFetchFailedMutant(p, cache, call) ==
    PollResult([p EXCEPT !.phase = "ended", !.skipped = call.symbol],
               call, NoQuoteOut)

OnFetchFailed(p, cache, call) ==
    Fetch([p EXCEPT !.skipped = call.symbol], cache, p.i + 1, call)

\* The loop of a stream without an API key from the i-th symbol on: the
\* cached price is yielded when there is one, then the sleep; after the last
\* symbol the generator returns.
Unconfigured(p, cache, i, call) ==
    IF i > Len(p.subscriptions)
    THEN PollResult([p EXCEPT !.phase = "ended", !.i = i], call, NoQuoteOut)
    ELSE IF cache[p.subscriptions[i]] # NoPrice
    THEN PollResult([p EXCEPT !.phase = "yield", !.i = i,
                              !.yielded = @ \cup {p.subscriptions[i]}],
                    call,
                    [symbol |-> p.subscriptions[i],
                     price |-> cache[p.subscriptions[i]]])
    ELSE PollResult([p EXCEPT !.phase = "sleep_unconfigured", !.i = i],
                    call, NoQuoteOut)

PollStep(r, cache) ==
    /\ poll' = r.poll
    /\ gq' = r.gq
    /\ emitted' = r.emitted
    /\ latest_prices' = cache
    /\ UNCHANGED <<api_key, conn, received, sessionVars, evaluatorVars,
                   compositeVars, notifierVars>>

\* The consumer pulls the first item of stream(subscriptions).
PollStart ==
    /\ provider = "polygon"
    /\ poll.phase = "idle"
    /\ LET p == [poll EXCEPT !.skipped = ""] IN
       PollStep(IF api_key THEN Fetch(p, latest_prices, 1, gq)
                ELSE Unconfigured(p, latest_prices, 1, gq),
                latest_prices)

\* The request get_quote is suspended in comes to its end: the quote is
\* yielded, the fallback request is issued, or the exception is caught.
PollResponse ==
    /\ poll.phase = "request"
    /\ \E resp \in ResponsesTo("polygon", gq) :
        LET r == OnResponse("polygon", latest_prices, gq, resp)
            p == [poll EXCEPT !.skipped = ""]
        IN PollStep(IF r.gq.state = "returned"
                    THEN PollResult([p EXCEPT !.phase = "yield",
                                        !.yielded = @ \cup {r.gq.symbol}],
                             r.gq,
                             [symbol |-> r.gq.symbol, price |-> r.gq.price])
                    ELSE IF r.gq.state = "fallback"
                    THEN PollResult([p EXCEPT !.since = 0], r.gq, NoQuoteOut)
                    ELSE OnFetchFailed(p, r.latest_prices, r.gq),
                    r.latest_prices)

\* The consumer pulls the next item: the generator goes from the yield to
\* the sleep that follows it.
PollPulled ==
    /\ poll.phase = "yield"
    /\ PollStep(PollResult([poll EXCEPT !.skipped = "",
                    !.phase = IF api_key THEN "sleep_request"
                              ELSE "sleep_unconfigured"],
                    gq, NoQuoteOut),
                latest_prices)

\* asyncio.sleep returned.
PollSleepElapsed ==
    /\ poll.phase \in {"sleep_request", "sleep_cycle", "sleep_unconfigured"}
    /\ LET p == [poll EXCEPT !.skipped = ""] IN
       PollStep(IF poll.phase = "sleep_request"
                THEN Fetch(Slept(p, inter_request_delay), latest_prices,
                           poll.i + 1, gq)
                ELSE IF poll.phase = "sleep_cycle"
                THEN Fetch(Slept(p, inter_cycle_delay), latest_prices, 1, gq)
                ELSE Unconfigured(p, latest_prices, poll.i + 1, gq),
                latest_prices)

\* ---------------------------------------------------------- specification
Init ==
    /\ pc = "recv"
    /\ msg = NoMessage
    /\ active_subscriptions = {}
    /\ stream_task = None
    /\ stream_cancel = None
    /\ tasks = [t \in TaskIds |-> NoTask]
    /\ sent = NoFrame
    /\ dropped = {}
    /\ provider \in ProviderKinds
    /\ previous_prices = [s \in Symbols |-> NoPrice]
    /\ alert_rules = <<>>
    /\ ev = NoEval
    /\ latest_prices = NoPrices
    /\ api_key = FALSE
    /\ conn = NoStream
    /\ received = NoStreamFrame
    /\ emitted = NoQuoteOut
    /\ gq = NoCall
    /\ poll = NoPoll
    /\ mixed = NoMixed
    /\ deliveries = <<>>
    /\ webhook_url = FALSE
    /\ posted = "none"

Next ==
    \/ RecvInvalidJson
    \/ RecvNonObject
    \/ RecvSubscribe
    \/ SubscribeAcked
    \/ SubscribeAwaited
    \/ RecvUnsubscribe
    \/ UnsubscribeAcked
    \/ UnsubscribeAwaitedRestart
    \/ UnsubscribeAwaitedStop
    \/ RecvPing
    \/ RecvOther
    \/ ReplySent
    \/ OnDisconnect
    \/ \E t \in TaskIds :
        \/ DistStart(t)
        \/ DistSendReturned(t)
        \/ MockSleepElapsed(t)
        \/ BinanceConnected(t)
        \/ BinanceConnectFailed(t)
        \/ BinanceConnectionLost(t)
        \/ BinanceClosedOK(t)
        \/ BinanceBackoffElapsed(t)
        \/ BinanceTrade(t)
        \/ DistCancelled(t)
        \/ AsyncGenFinalize(t)

Spec == Init /\ [][Next]_vars


\* The event loop runs every scheduled step: a cancelled task is stepped, and
\* the finalizer's aclose tasks run.
FairSpec ==
    /\ Spec
    /\ \A t \in TaskIds : WF_vars(DistCancelled(t))
    /\ \A t \in TaskIds : WF_vars(AsyncGenFinalize(t))

\* The session with a client that can close the connection at any moment,
\* so that a send of the session or of the Distributor can fail as well as
\* a read.
CloseNext ==
    \/ Next
    \/ ReplySendFailed
    \/ ErrorSendFailed
    \/ \E t \in TaskIds : DistSendFailed(t)

CloseSpec == Init /\ [][CloseNext]_vars

\* The upstream of a Binance stream accepts connections again and again and
\* goes on producing trades, and the event loop runs every scheduled step:
\* the sleep of a backoff returns and a cancelled task is stepped.
RetrySpec ==
    /\ Spec
    /\ \A t \in TaskIds : WF_vars(DistCancelled(t))
    /\ \A t \in TaskIds : WF_vars(BinanceBackoffElapsed(t))
    /\ \A t \in TaskIds : SF_vars(BinanceConnected(t))
    /\ \A t \in TaskIds : SF_vars(BinanceTrade(t))

\* The evaluator on its own: an AlertEvaluator is fed quotes against a stored
\* list of rules, through evaluate and through _evaluate_quote.
EvalInit ==
    /\ pc = "recv"
    /\ msg = NoMessage
    /\ active_subscriptions = {}
    /\ stream_task = None
    /\ stream_cancel = None
    /\ tasks = [t \in TaskIds |-> NoTask]
    /\ sent = NoFrame
    /\ dropped = {}
    /\ provider = "mock"
    /\ previous_prices = [s \in Symbols |-> NoPrice]
    /\ alert_rules \in RuleLists
    /\ ev = NoEval
    /\ latest_prices = NoPrices
    /\ api_key = FALSE
    /\ conn = NoStream
    /\ received = NoStreamFrame
    /\ emitted = NoQuoteOut
    /\ gq = NoCall
    /\ poll = NoPoll
    /\ mixed = NoMixed
    /\ deliveries = <<>>
    /\ webhook_url = FALSE
    /\ posted = "none"

EvalNext ==
    \/ EvaluateCall
    \/ EvaluateQuote

EvalSpec == EvalInit /\ [][EvalNext]_vars

\* One provider instance on its own: a BinanceProvider whose stream has been
\* called with some symbols and is connecting, or a PolygonProvider with or
\* without an API key, and callers of get_quote.
SourceInit ==
    /\ pc = "recv"
    /\ msg = NoMessage
    /\ active_subscriptions = {}
    /\ stream_task = None
    /\ stream_cancel = None
    /\ tasks = [t \in TaskIds |-> NoTask]
    /\ sent = NoFrame
    /\ dropped = {}
    /\ provider \in SourceKinds
    /\ previous_prices = [s \in Symbols |-> NoPrice]
    /\ alert_rules = <<>>
    /\ ev = NoEval
    /\ latest_prices = NoPrices
    /\ api_key \in IF provider = "polygon" THEN BOOLEAN ELSE {FALSE}
    /\ conn = IF provider = "binance"
              THEN [NoStream EXCEPT !.phase = "connecting"] ELSE NoStream
    /\ received = NoStreamFrame
    /\ emitted = NoQuoteOut
    /\ gq = NoCall
    /\ poll = NoPoll
    /\ mixed = NoMixed
    /\ deliveries = <<>>
    /\ webhook_url = FALSE
    /\ posted = "none"

SourceNext ==
    \/ StreamConnected
    \/ StreamConnectFailed
    \/ StreamConnectionLost
    \/ StreamClosedOK
    \/ StreamBackoffElapsed
    \/ StreamFrame
    \/ GetQuoteCall
    \/ GetQuoteResponse

SourceSpec == SourceInit /\ [][SourceNext]_vars

\* A PolygonProvider on its own, with or without an API key: its stream has
\* been called with some subscriptions and one consumer pulls from it.
PollInit ==
    /\ pc = "recv"
    /\ msg = NoMessage
    /\ active_subscriptions = {}
    /\ stream_task = None
    /\ stream_cancel = None
    /\ tasks = [t \in TaskIds |-> NoTask]
    /\ sent = NoFrame
    /\ dropped = {}
    /\ provider = "polygon"
    /\ previous_prices = [s \in Symbols |-> NoPrice]
    /\ alert_rules = <<>>
    /\ ev = NoEval
    /\ latest_prices = NoPrices
    /\ api_key \in BOOLEAN
    /\ conn = NoStream
    /\ received = NoStreamFrame
    /\ emitted = NoQuoteOut
    /\ gq = NoCall
    /\ poll \in {[NoPoll EXCEPT !.subscriptions = subs] : subs \in PollSubscriptions}
    /\ mixed = NoMixed
    /\ deliveries = <<>>
    /\ webhook_url = FALSE
    /\ posted = "none"

PollNext ==
    \/ PollStart
    \/ PollResponse
    \/ PollPulled
    \/ PollSleepElapsed

PollSpec == PollInit /\ [][PollNext]_vars

\* A MixedProvider on its own, and callers of its stream and get_quote.
CompositeInit ==
    /\ pc = "recv"
    /\ msg = NoMessage
    /\ active_subscriptions = {}
    /\ stream_task = None
    /\ stream_cancel = None
    /\ tasks = [t \in TaskIds |-> NoTask]
    /\ sent = NoFrame
    /\ dropped = {}
    /\ provider = "mixed"
    /\ previous_prices = [s \in Symbols |-> NoPrice]
    /\ alert_rules = <<>>
    /\ ev = NoEval
    /\ latest_prices = NoPrices
    /\ api_key = FALSE
    /\ conn = NoStream
    /\ received = NoStreamFrame
    /\ emitted = NoQuoteOut
    /\ gq = NoCall
    /\ poll = NoPoll
    /\ mixed = NoMixed
    /\ deliveries = <<>>
    /\ webhook_url = FALSE
    /\ posted = "none"

CompositeNext ==
    \/ MixedStream
    \/ MixedGetQuote

CompositeSpec == CompositeInit /\ [][CompositeNext]_vars

\* The rows of the alert storage of the monitoring pipeline: enabled price
\* rules, of which two can trigger on one quote.
MonitorRules ==
    {rule \in AlertRules :
        rule.enabled /\ rule.kind \in {"price_above", "price_below"}}

MonitorRuleLists == UNION {[1..n -> MonitorRules] : n \in 0..MaxRules}

\* The session of the monitoring pipeline, whose Distributor streams the
\* symbols of `order`: waiting for a message with every symbol subscribed, or
\* suspended in the send of the acknowledgement of an unsubscribe that has
\* discarded the last of the symbols, before the restart of the Distributor.
MonitorSessions(order) ==
    LET s == order[Len(order)] IN
    {[pc |-> "recv", msg |-> NoMessage, active_subscriptions |-> Symbols,
      sent |-> NoFrame],
     [pc |-> "unsub_ack",
      msg |-> [json |-> "object", action |-> "unsubscribe",
               symbols |-> [iterable |-> TRUE, items |-> <<s>>]],
      active_subscriptions |-> Symbols \ {s},
      sent |-> UnsubscribedFrame(Symbols \ {s})]}

\* The monitoring pipeline of one connection: the session has subscribed to
\* the symbols, its Distributor is pulling from an open Binance stream, and
\* the AlertMonitor has some stored rules and a SlackNotifier with or
\* without a webhook.
MonitorInit ==
    /\ \E order \in ListsOf(Symbols) :
        /\ \E session \in MonitorSessions(order) :
            /\ pc = session.pc
            /\ msg = session.msg
            /\ active_subscriptions = session.active_subscriptions
            /\ sent = session.sent
        /\ tasks = [t \in TaskIds |->
                        IF t = 1
                        THEN [NewTask EXCEPT !.state = "pull", !.phase = "open",
                                             !.subs = order]
                        ELSE NoTask]
    /\ stream_task = 1
    /\ stream_cancel = 1
    /\ dropped = {}
    /\ provider = "binance"
    /\ previous_prices = [s \in Symbols |-> NoPrice]
    /\ alert_rules \in MonitorRuleLists
    /\ ev = NoEval
    /\ latest_prices = NoPrices
    /\ api_key = FALSE
    /\ conn = NoStream
    /\ received = NoStreamFrame
    /\ emitted = NoQuoteOut
    /\ gq = NoCall
    /\ poll = NoPoll
    /\ mixed = NoMixed
    /\ deliveries = <<>>
    /\ webhook_url \in BOOLEAN
    /\ posted = "none"

MonitorNext ==
    \/ MonitorQuote(1)
    \/ DistSendReturned(1)
    \/ \E i \in 1..MaxInFlight :
        \/ DeliveryStart(i)
        \/ DeliveryResponse(i)

MonitorSpec == MonitorInit /\ [][MonitorNext]_vars

\* ----------------------------------------------------------------- claims
AwaitPcs == {"sub_await", "unsub_await_restart", "unsub_await_stop"}

\* The session handed an acknowledgement or reply frame to send_json.
SessionFrameTypes == {"subscribed", "unsubscribed", "pong", "error"}

\* A "symbols" value that is a list of strings.
WellFormed(symbols) ==
    symbols.iterable /\ Unhashable \notin Range(symbols.items)

\* The step is the receipt of a well-formed message with this action.
ReceivesWellFormed(action) ==
    /\ pc = "recv"
    /\ msg'.json = "object"
    /\ msg'.action = action
    /\ WellFormed(msg'.symbols)

\* The step neither cancels a task nor creates one, and leaves the session's
\* subscription state alone.
DistributorUntouched ==
    /\ active_subscriptions' = active_subscriptions
    /\ stream_task' = stream_task
    /\ stream_cancel' = stream_cancel
    /\ \A t \in TaskIds :
        /\ tasks'[t].cancel_event = tasks[t].cancel_event
        /\ tasks'[t].must_cancel = tasks[t].must_cancel
        /\ tasks'[t].state = "created" => tasks[t].state = "created"

\* C1: at every moment at most one Distributor task created by the session is
\* running (created and not yet terminated), whatever subscribe, unsubscribe,
\* ping and malformed messages the session has processed.
C1_AtMostOneDistributor == Cardinality(Running) <= 1

\* C1 witness: a Distributor has been cancelled and has terminated, and its
\* replacement is streaming.
C1_Witness ==
    \E t, u \in TaskIds :
        /\ tasks[t].state = "done" /\ tasks[t].cancel_event
        /\ tasks[u].state \in {"pull", "send"}
        /\ stream_task = u

\* C2: the 'subscribed' / 'unsubscribed' acknowledgement is sent only after
\* the previous Distributor has fully terminated: when the acknowledgement
\* frame is handed to send_json no Distributor is running (stated as the
\* claim has it; the code sends the acknowledgement before it cancels).
C2_AckAfterTermination ==
    sent.type \in {"subscribed", "unsubscribed"} => Running = {}

C4_ForwardOnlySubscribed ==
    sent.type = "quote" => sent.symbol \in active_subscriptions

\* C4 witness: while the acknowledgement of an unsubscribe is being sent, the
\* old Distributor pulled a quote of an unsubscribed symbol and dropped it.
C4_Witness ==
    /\ pc = "unsub_ack"
    /\ dropped # {}
    /\ dropped \cap active_subscriptions = {}
    /\ \E t \in Running : dropped \subseteq Range(tasks[t].subs)

\* C5: processing a well-formed subscribe sets the desired set to the union
\* of the previous set and the message's symbols and hands send_json exactly
\* one 'subscribed' frame, listing exactly the resulting set (no other step of
\* the handler sends a session frame); when the handler is done and the set
\* is non-empty, exactly one Distributor is running, the session's.
C5_Subscribe ==
    [][/\ ReceivesWellFormed("subscribe") =>
            /\ pc' = "sub_ack"
            /\ active_subscriptions' =
                    active_subscriptions \cup Range(msg'.symbols.items)
            /\ sent' = SubscribedFrame(active_subscriptions')
       /\ sent'.type = "subscribed" => ReceivesWellFormed("subscribe")
       /\ pc \in {"sub_ack", "sub_await"} =>
            /\ sent'.type \notin SessionFrameTypes
            /\ active_subscriptions' = active_subscriptions
       /\ (pc \in {"sub_ack", "sub_await"} /\ pc' = "recv"
             /\ active_subscriptions # {}) =>
            /\ stream_task' # None
            /\ Running' = {stream_task'}
            /\ tasks'[stream_task'].state = "created"
      ]_vars

\* C5 witness: a subscribe was acknowledged with a set that joins an earlier
\* subscription and the message's symbols, while a Distributor is running.
C5_Witness ==
    /\ pc = "sub_ack"
    /\ sent = SubscribedFrame(Symbols)
    /\ Cardinality(Range(msg.symbols.items)) = 1
    /\ stream_task \in Running

\* C6: processing a well-formed unsubscribe while a Distributor is assigned
\* sets the desired set to the previous set minus the message's symbols and
\* hands send_json one 'unsubscribed' frame listing the result; the old
\* Distributor is then cancelled and awaited; a non-empty result ends with
\* exactly one fresh Distributor running, an empty one with none running,
\* no task assigned and the session Idle.
C6_Unsubscribe ==
    [][/\ (ReceivesWellFormed("unsubscribe") /\ stream_task # None) =>
            /\ pc' = "unsub_ack"
            /\ active_subscriptions' =
                    active_subscriptions \ Range(msg'.symbols.items)
            /\ sent' = UnsubscribedFrame(active_subscriptions')
       /\ pc \in {"unsub_ack"} \cup (AwaitPcs \ {"sub_await"}) =>
            /\ sent'.type \notin SessionFrameTypes
            /\ active_subscriptions' = active_subscriptions
       /\ (pc = "unsub_ack" /\ pc' # "unsub_ack" /\ stream_task # None) =>
            /\ pc' = IF active_subscriptions # {}
                     THEN "unsub_await_restart" ELSE "unsub_await_stop"
            /\ tasks'[stream_task].cancel_event
            /\ stream_task \in Running => tasks'[stream_task].must_cancel
       /\ (pc = "unsub_await_restart" /\ pc' = "recv") =>
            /\ tasks[stream_task].state = "done"
            /\ stream_task' # None
            /\ Running' = {stream_task'}
            /\ tasks'[stream_task'].state = "created"
       /\ (pc = "unsub_await_stop" /\ pc' = "recv") =>
            /\ tasks[stream_task].state = "done"
            /\ tasks' = tasks
            /\ Running' = {}
            /\ stream_task' = None
            /\ active_subscriptions' = {}
      ]_vars

\* C6 witness: the session has cancelled its streaming Distributor after an
\* unsubscribe of everything and waits for it to terminate.
C6_Witness ==
    /\ pc = "unsub_await_stop"
    /\ active_subscriptions = {}
    /\ tasks[stream_task].must_cancel
    /\ tasks[stream_task].state \in {"pull", "send"}

\* C7: a ping is answered with exactly one 'pong' frame, and from its receipt
\* to the end of its handler the desired set, the assigned task and every
\* task's cancellation state are unchanged and no task is created.
C7_Ping ==
    [][/\ (pc = "recv" /\ msg'.action = "ping") =>
            (sent' = PongFrame /\ pc' = "pong" /\ tasks' = tasks)
       /\ sent' = PongFrame => (pc = "recv" /\ msg'.action = "ping")
       /\ (pc = "pong" \/ pc' = "pong") => DistributorUntouched
       /\ pc = "pong" => sent'.type \notin SessionFrameTypes
       /\ (pc = "pong" /\ pc' # "pong") => pc' = "recv"
      ]_vars

\* C7 witness: the pong has been sent while a Distributor is streaming.
C7_Witness ==
    /\ pc = "pong"
    /\ sent = PongFrame
    /\ stream_task \in Running
    /\ tasks[stream_task].state \in {"pull", "send"}

\* C8: a frame that is not valid JSON is answered with exactly one 'error'
\* frame, the session returns to reading the next message, and from the
\* receipt to the end of the handler no task is cancelled or created.
C8_InvalidJson ==
    [][/\ (pc = "recv" /\ msg'.json = "invalid") =>
            (sent' = InvalidJsonFrame /\ pc' = "err_json" /\ tasks' = tasks)
       /\ sent' = InvalidJsonFrame => (pc = "recv" /\ msg'.json = "invalid")
       /\ (pc = "err_json" \/ pc' = "err_json") => DistributorUntouched
       /\ pc = "err_json" => sent'.type \notin SessionFrameTypes
       /\ (pc = "err_json" /\ pc' # "err_json") => pc' = "recv"
      ]_vars

\* C8 witness: the error frame for invalid JSON has been sent while a
\* Distributor is streaming.
C8_Witness ==
    /\ pc = "err_json"
    /\ sent = InvalidJsonFrame
    /\ stream_task \in Running
    /\ tasks[stream_task].state \in {"pull", "send"}

\* C9: every client message answered with an 'error' frame leaves the desired
\* set, the assigned task and the tasks as they were (stated as the claim has
\* it; a symbols list with an unhashable item after a string has the string
\* added or removed before the error).
C9_ErrorLeavesStateUnchanged ==
    [][(pc = "recv" /\ sent'.type = "error") =>
            /\ active_subscriptions' = active_subscriptions
            /\ stream_task' = stream_task
            /\ stream_cancel' = stream_cancel
            /\ tasks' = tasks
      ]_vars

\* C10: once the session has handled the disconnect it processes no further
\* message (its state never changes again), the handler cancels every running
\* Distributor, and eventually no Distributor is running.
C10_Disconnect ==
    /\ [][pc = "closed" =>
            /\ pc' = "closed"
            /\ UNCHANGED <<msg, active_subscriptions, stream_task, stream_cancel>>
            /\ sent'.type \notin SessionFrameTypes
         ]_vars
    /\ [][(pc # "closed" /\ pc' = "closed") =>
            \A t \in Running : tasks'[t].must_cancel /\ tasks'[t].cancel_event
         ]_vars
    /\ (pc = "closed") ~> (Running = {})

\* C10 witness: the session is closed and the Distributor it had assigned,
\* cancelled by the disconnect handler, has terminated.
C10_Witness ==
    /\ pc = "closed"
    /\ stream_task # None
    /\ tasks[stream_task].state = "done"
    /\ tasks[stream_task].cancel_event
    /\ Running = {}

\* The tasks the step creates.
Created == {t \in TaskIds : tasks'[t].state = "created" /\ tasks[t].state # "created"}

\* The session is Idle: no task assigned, none running, nothing subscribed.
Idle == stream_task = None /\ Running = {} /\ active_subscriptions = {}

\* C11: from a session streaming a set X, an unsubscribe of all of X is
\* acknowledged with an 'unsubscribed' frame listing nothing, its handler
\* sends no other session frame, creates no task and ends Idle with the first
\* Distributor terminated; a subscribe to X received in that state is
\* acknowledged with a 'subscribed' frame listing exactly X, and its handler
\* ends with exactly one task created, the only one running.
C11_UnsubscribeAllThenResubscribe ==
    [][/\ (/\ ReceivesWellFormed("unsubscribe")
           /\ stream_task \in Running
           /\ active_subscriptions # {}
           /\ Range(msg'.symbols.items) = active_subscriptions) =>
            /\ sent' = UnsubscribedFrame({})
            /\ pc' = "unsub_ack"
            /\ Created = {}
       /\ (pc \in {"unsub_ack", "unsub_await_stop"} /\ active_subscriptions = {}
             /\ stream_task # None) =>
            /\ sent'.type \notin SessionFrameTypes
            /\ Created = {}
            /\ pc' \in {"unsub_ack", "unsub_await_stop", "recv"}
            /\ pc' = "recv" =>
                (pc = "unsub_await_stop" /\ tasks[stream_task].state = "done"
                    /\ Idle')
       /\ (ReceivesWellFormed("subscribe") /\ Idle
             /\ msg'.symbols.items # <<>>) =>
            /\ sent' = SubscribedFrame(Range(msg'.symbols.items))
            /\ pc' = "sub_ack"
            /\ Created = {}
            /\ stream_task' = None
       /\ (pc = "sub_ack" /\ stream_task = None /\ active_subscriptions # {}
             /\ pc' # "sub_ack") =>
            /\ pc' = "recv"
            /\ sent'.type \notin SessionFrameTypes
            /\ Cardinality(Created) = 1
            /\ Created = {stream_task'}
            /\ Running' = {stream_task'}
      ]_vars

\* C11 witness: the first Distributor was cancelled by an unsubscribe of
\* everything and has terminated, the session went Idle (no task assigned),
\* and the subscribe to the whole set that followed has been acknowledged
\* and is about to start the one new Distributor.
C11_Witness ==
    /\ pc = "sub_ack"
    /\ stream_task = None
    /\ Running = {}
    /\ sent = SubscribedFrame(Symbols)
    /\ Range(msg.symbols.items) = Symbols
    /\ \E t \in TaskIds : tasks[t].state = "done" /\ tasks[t].cancel_event

\* C12: a well-formed unsubscribe received while the session is Idle is
\* answered without an 'error' frame, and from its receipt to the end of its
\* handler no task is created and the desired set stays empty.
C12_UnsubscribeWhileIdle ==
    [][/\ (ReceivesWellFormed("unsubscribe") /\ Idle) =>
            /\ sent'.type # "error"
            /\ sent' = UnsubscribedFrame({})
            /\ pc' = "unsub_ack"
            /\ Created = {}
            /\ Idle'
       /\ (pc = "unsub_ack" /\ Idle) =>
            /\ sent'.type \notin SessionFrameTypes
            /\ Created = {}
            /\ Idle'
            /\ pc' \in {"unsub_ack", "recv"}
      ]_vars

\* C12 witness: an unsubscribe naming a symbol was acknowledged in a session
\* that never subscribed to anything.
C12_Witness ==
    /\ pc = "unsub_ack"
    /\ msg.symbols.items # <<>>
    /\ Idle
    /\ \A t \in TaskIds : tasks[t].state = "none"
    /\ sent = UnsubscribedFrame({})

\* The step is a call of the evaluator (either entry point).
Evaluates == ev'.op # "none"

\* a is b with some elements left out.
RECURSIVE IsSubSeq(_, _)
IsSubSeq(a, b) ==
    \/ a = <<>>
    \/ /\ b # <<>>
       /\ IF Head(a) = Head(b)
          THEN IsSubSeq(Tail(a), Tail(b))
          ELSE IsSubSeq(a, Tail(b))

\* C13: for an evaluator whose rule list is one enabled pct_move rule on
\* symbol S with threshold t, a quote for S evaluated while no price of S is
\* stored (the first quote observed for S) never returns the rule; a quote
\* with price p2 evaluated while p1 is stored returns the rule iff
\* |p2 - p1| / p1 * 100 >= t; and the price stored afterwards is the quote's,
\* so p1 is always the price of the preceding quote for S. With t = 2 and
\* p1 = 100, p2 = 103 fires and p2 = 101.5 does not.
C13_PctMove ==
    [][LET rule == alert_rules[1]
           quote == ev'.quote
       IN (/\ Evaluates
           /\ Len(alert_rules) = 1
           /\ rule.kind = "pct_move" /\ rule.enabled
           /\ rule.symbol = quote.symbol) =>
            LET p1 == previous_prices[quote.symbol]
                p2 == quote.price
            IN /\ ev'.rules = <<rule>>
               /\ p1 = NoPrice => ev'.triggered = <<>>
               /\ p1 # NoPrice =>
                    ev'.triggered =
                        IF Abs(p2 - p1) * 100 >= rule.threshold * p1
                        THEN <<rule>> ELSE <<>>
               /\ (rule.threshold = 2 /\ p1 = 100000 /\ p2 = 103000) =>
                    ev'.triggered = <<rule>>
               /\ (rule.threshold = 2 /\ p1 = 100000 /\ p2 = 101500) =>
                    ev'.triggered = <<>>
               /\ previous_prices'[quote.symbol] = p2
      ]_vars

\* C13 witness: the only rule is an enabled pct_move rule with threshold 2
\* and it was returned for a quote at 103.0, which of the prices
\* of the model only a prior of 100.0 allows.
C13_Witness ==
    /\ Len(alert_rules) = 1
    /\ alert_rules[1].kind = "pct_move" /\ alert_rules[1].enabled
    /\ ev.quote.symbol = alert_rules[1].symbol
    /\ ev.quote.price = 103000
    /\ ev.triggered = alert_rules

\* C14: for every evaluated quote and every enabled rule of the list whose
\* symbol is the quote's, a price_above rule is among the returned rules iff
\* quote.price >= threshold and a price_below rule iff quote.price <=
\* threshold; at price = threshold both are returned.
C14_PriceRules ==
    [][Evaluates =>
        \A i \in DOMAIN ev'.rules :
            LET rule == ev'.rules[i]
                quote == ev'.quote IN
            (rule.enabled /\ rule.symbol = quote.symbol) =>
                /\ rule.kind = "price_above" =>
                    (rule \in Range(ev'.triggered)
                        <=> quote.price >= rule.threshold)
                /\ rule.kind = "price_below" =>
                    (rule \in Range(ev'.triggered)
                        <=> quote.price <= rule.threshold)
      ]_vars

\* C14 witness: a quote whose price equals the threshold of an enabled
\* price_above rule and of an enabled price_below rule fired both.
C14_Witness ==
    /\ ev.op = "evaluate"
    /\ Len(ev.triggered) = 2
    /\ ev.triggered[1].kind = "price_above"
    /\ ev.triggered[2].kind = "price_below"
    /\ ev.triggered[1].threshold = ev.quote.price
    /\ ev.triggered[2].threshold = ev.quote.price

\* C15: after every quote that has passed through the alert-evaluation step
\* (_evaluate_quote), the price stored for the quote's symbol is the quote's
\* price, whatever rules exist for the symbol (stated as the claim has it;
\* the code stores the price only while it evaluates an enabled pct_move rule
\* of the symbol).
C15_PriorAlwaysUpdated ==
    ev.op = "_evaluate_quote" =>
        previous_prices[ev.quote.symbol] = ev.quote.price

\* C16: the rules evaluate returns are enabled, carry the quote's symbol and
\* are of kind price_above, price_below or pct_move, and the returned list is
\* a sub-sequence of the list it was given.
C16_OnlyApplicableRules ==
    /\ \A i \in DOMAIN ev.triggered :
        /\ ev.triggered[i].enabled
        /\ ev.triggered[i].symbol = ev.quote.symbol
        /\ ev.triggered[i].kind \in {"price_above", "price_below", "pct_move"}
    /\ IsSubSeq(ev.triggered, ev.rules)

\* C16 witness: evaluate was given two rules and returned only the second:
\* the first is disabled, or of another symbol, or of an unknown kind.
C16_Witness ==
    /\ ev.op = "evaluate"
    /\ Len(ev.rules) = 2
    /\ ev.triggered = <<ev.rules[2]>>
    /\ \/ ~ev.rules[1].enabled
       \/ ev.rules[1].symbol # ev.quote.symbol
       \/ ev.rules[1].kind = "volume_spike"
    /\ ev.rules[1].threshold = ev.rules[2].threshold

RECURSIVE Pow2(_)
Pow2(n) == IF n = 0 THEN 1 ELSE 2 * Pow2(n - 1)

\* The step is the stream reading an inbound frame.
ReadsFrame == received'.kind # "none" /\ gq' = gq

\* The step belongs to get_quote: it starts a call, or ends a request.
StartsCall == gq' # gq /\ gq.state \in {"idle", "returned", "raised"}

EndsRequest == gq' # gq /\ gq.state \in {"requesting", "fallback"}

\* C17: in the Continuous-Feed stream the delay variable is always within
\* [1, 60]; the wait that follows the n-th consecutive connection failure
\* (n counted from the last successful connection, or from the start) is
\* min(2^(n-1), 60); and on an established connection the delay is 1 again,
\* so the failure that follows a success waits 1.
C17_ReconnectBackoff ==
    /\ conn.reconnect_delay \in 1..60
    /\ conn.phase = "backoff" =>
        /\ conn.failures >= 1
        /\ conn.slept = Min(Pow2(conn.failures - 1), 60)
    /\ conn.phase = "open" => (conn.reconnect_delay = 1 /\ conn.failures = 0)
    /\ (conn.phase = "connecting" /\ conn.failures = 0) => conn.reconnect_delay = 1

\* C17 witness: the seventh failure in a row is being waited out with the
\* capped delay of 60, after waits of 1, 2, 4, 8, 16 and 32.
C17_Witness ==
    /\ conn.phase = "backoff"
    /\ conn.failures = 7
    /\ conn.slept = 60

\* C18: an inbound frame of the Continuous-Feed stream that is unparseable,
\* lacks the symbol, the price or the timestamp, or carries a non-numeric
\* price yields no quote and leaves the price cache, the open connection and
\* the backoff delay as they were; a well-formed frame read on the
\* connection, whatever was read before it, is cached and yielded.
C18_MalformedFrameDropped ==
    [][ReadsFrame =>
        /\ received'.kind # "trade" =>
            /\ emitted' = NoQuoteOut
            /\ latest_prices' = latest_prices
            /\ conn' = conn
            /\ conn.phase = "open"
        /\ received'.kind = "trade" =>
            /\ emitted' = [symbol |-> received'.symbol,
                           price |-> Round2(received'.price)]
            /\ latest_prices'[received'.symbol] = received'.price
            /\ conn' = conn
      ]_vars

\* C18 witness: a frame with a symbol and a price and no timestamp has been
\* dropped on an open connection: the cache still holds the other price an
\* earlier trade of the symbol left there.
C18_Witness ==
    /\ conn.phase = "open"
    /\ received.kind = "no_timestamp"
    /\ emitted = NoQuoteOut
    /\ latest_prices[received.symbol] # NoPrice
    /\ latest_prices[received.symbol] # received.price

C20_FailedFetchLeavesNoEntry ==
    [][(gq' # gq /\ gq'.state = "raised"
          /\ latest_prices[gq'.symbol] = NoPrice) =>
            latest_prices'[gq'.symbol] = NoPrice
      ]_vars

\* C21: in every cycle of a configured polling stream, the first and every
\* later one, the quote yielded for a symbol comes from a request issued for
\* that symbol in that cycle: the get_quote call that produced it has issued
\* at least one upstream request.
C21_FetchedEveryCycle ==
    (api_key /\ poll.phase = "yield") => gq.requests >= 1

\* C22: when the fetch of a symbol fails in a polling stream, the step
\* yields no quote for that symbol and the loop goes on with the next symbol
\* of the cycle, or with the sleep before the next cycle after the last one;
\* the stream does not end, and after that sleep the next cycle starts with
\* the first symbol.
C22_FailedFetchSkipped ==
    [][/\ (poll.phase = "request" /\ poll'.skipped # "") =>
            /\ poll'.skipped = poll.subscriptions[poll.i]
            /\ emitted'.symbol # poll'.skipped
            /\ poll'.phase # "ended"
            /\ IF poll.i < Len(poll.subscriptions)
               THEN /\ poll'.i = poll.i + 1
                    /\ poll'.phase \in {"request", "yield"}
                    /\ gq'.symbol = poll.subscriptions[poll.i + 1]
               ELSE poll'.phase = "sleep_cycle"
       /\ (poll.phase = "sleep_cycle" /\ poll' # poll) =>
            /\ poll'.i = 1
            /\ poll'.phase \in {"request", "yield"}
            /\ gq'.symbol = poll.subscriptions[1]
      ]_vars

\* A cycle in which the fetch of one symbol has just failed and the quote of
\* the next symbol is yielded in the same step.
C22_Witness ==
    /\ poll.skipped # ""
    /\ poll.phase = "yield"
    /\ emitted.symbol \notin {"", poll.skipped}

\* C23: between the last request of one fetch of a polling stream and the
\* first request of the next fetch, at least the inter-request delay elapses,
\* whatever the earlier fetch came to.
C23_MinimumRequestSpacing ==
    poll.gap = NoRequest \/ poll.gap >= inter_request_delay

\* C30: a polling stream called with a non-empty list of symbols never
\* reaches its end on its own, with or without credentials.
C30_StreamNeverEnds ==
    poll.subscriptions # <<>> => poll.phase # "ended"

\* The characters a symbol ends in.
LastChars(s, n) == [i \in 1..n |-> s[Len(s) - n + i]]

EndsInUSDT(s) == Len(s) >= 4 /\ LastChars(s, 4) = <<"U", "S", "D", "T">>

\* C24: stream puts every requested symbol in exactly one of its two groups,
\* the symbols ending in USDT in the crypto group and all others in the
\* equity group, each group in the order of the request; get_quote delegates
\* by the same predicate; BTCUSDT always goes to the crypto sub-source and
\* AAPL to the equity sub-source.
C24_RoutingPartition ==
    /\ mixed.op = "stream" =>
        /\ \A s \in Range(mixed.subscriptions) :
            /\ (s \in Range(mixed.crypto_symbols)) # (s \in Range(mixed.equity_symbols))
            /\ (s \in Range(mixed.crypto_symbols)) <=> EndsInUSDT(s)
        /\ Range(mixed.crypto_symbols) \cup Range(mixed.equity_symbols)
                = Range(mixed.subscriptions)
        /\ Len(mixed.crypto_symbols) + Len(mixed.equity_symbols)
                = Len(mixed.subscriptions)
        /\ IsSubSeq(mixed.crypto_symbols, mixed.subscriptions)
        /\ IsSubSeq(mixed.equity_symbols, mixed.subscriptions)
        /\ BTCUSDT \notin Range(mixed.equity_symbols)
        /\ AAPL \notin Range(mixed.crypto_symbols)
    /\ mixed.op = "get_quote" =>
        /\ mixed.delegate = IF EndsInUSDT(mixed.symbol) THEN "binance" ELSE "polygon"
        /\ mixed.symbol = BTCUSDT => mixed.delegate = "binance"
        /\ mixed.symbol = AAPL => mixed.delegate = "polygon"

\* A stream call with symbols of both kinds, among them one that contains
\* USDT without ending in it.
C24_Witness ==
    /\ mixed.op = "stream"
    /\ BTCUSDT \in Range(mixed.crypto_symbols)
    /\ {AAPL, USDTX} \subseteq Range(mixed.equity_symbols)

\* C25: a composite stream called with a non-empty crypto group and a
\* non-empty equity group serves both: its first pull neither raises nor
\* finds the stream finished.
C25_MergesBothGroups ==
    (/\ mixed.op = "stream"
     /\ mixed.crypto_symbols # <<>>
     /\ mixed.equity_symbols # <<>>)
        => mixed.outcome \notin {"TypeError", "StopAsyncIteration"}

\* C26: a composite stream called with at least one symbol does not itself
\* fail or end, whatever becomes of one of its sub-sources.
C26_CompositeSurvives ==
    (mixed.op = "stream" /\ mixed.subscriptions # <<>>)
        => mixed.outcome \notin {"TypeError", "StopAsyncIteration"}

\* A step of the pipeline in which the Distributor takes a quote and hands
\* it to send_json, and a step in which a notification task runs.
ForwardsQuote == tasks[1].state = "pull" /\ tasks'[1].state = "send"

NotifierRuns == deliveries' # deliveries /\ tasks' = tasks /\ dropped' = {}

\* C27: the number of notification deliveries in flight stays below one
\* fixed bound, here the largest number the model lets the task set hold,
\* however many alerts trigger.
C27_BoundedInFlight == Len(deliveries) < MaxInFlight

\* C28: the step that evaluates a quote creates one notification task for
\* every triggered alert, none of them started, leaves the tasks already in
\* flight as they are, and hands the quote to send_json in that same step,
\* whatever deliveries are in flight.
C28_FireAndForget ==
    [][ForwardsQuote =>
        /\ sent' = QuoteFrame(ev'.quote.symbol)
        /\ Len(deliveries') = Len(deliveries) + Len(ev'.triggered)
        /\ SubSeq(deliveries', 1, Len(deliveries)) = deliveries
        /\ \A k \in (Len(deliveries) + 1)..Len(deliveries') :
            deliveries'[k] = [state |-> "created", attempts |-> 0]
      ]_vars

\* A quote with two triggered alerts is being sent to the client while a
\* delivery of an earlier quote is still suspended in its post and the two
\* of this quote have not started.
C28_Witness ==
    /\ tasks[1].state = "send"
    /\ sent.type = "quote"
    /\ Len(ev.triggered) = 2
    /\ Len(deliveries) = 3
    /\ deliveries[1].state = "posting"
    /\ deliveries[2].state = "created" /\ deliveries[3].state = "created"

\* C29: no notification task posts more than once; a step in which a
\* delivery ends, with success or with a failure, creates no new delivery,
\* leaves the Distributor as it is and sends no frame; the Distributor is
\* never ended by it.
C29_NoRetryNoSurfacing ==
    [][/\ \A i \in 1..Len(deliveries') : deliveries'[i].attempts <= 1
       /\ NotifierRuns =>
            /\ Len(deliveries') <= Len(deliveries)
            /\ sent' = NoFrame
            /\ tasks'[1].state \in {"pull", "send"}
            /\ posted' \in {"bad_status", "exception"} =>
                /\ Len(deliveries') = Len(deliveries) - 1
                /\ \A i \in 1..Len(deliveries') : deliveries'[i] \in Range(deliveries)
       /\ tasks'[1].state \in {"pull", "send"}
      ]_vars

\* A post has just failed while the Distributor is waiting for the next
\* quote, and another delivery is still in flight.
C29_Witness ==
    /\ posted \in {"bad_status", "exception"}
    /\ sent = NoFrame
    /\ tasks[1].state = "pull"
    /\ deliveries # <<>>

\* C31: the quotes a polling stream hands on for a symbol are the answers of
\* the upstream in their order, each handed on once: no step yields a quote
\* for a symbol whose cached answer the stream has yielded before.
C31_UpstreamOrderNoDuplicate ==
    [][(api_key /\ emitted' # NoQuoteOut) => emitted'.symbol \notin poll.yielded
      ]_vars

\* The provider stream of task t is waiting to reconnect after a connect
\* error or the loss of its connection.
BackingOff(t) ==
    /\ tasks[t].state = "pull"
    /\ tasks[t].phase = "backoff"
    /\ ~tasks[t].must_cancel

\* C32: a step in which the Binance stream of a Distributor fails to connect
\* or loses its connection hands no frame to the client and leaves the
\* Distributor pulling; if the upstream accepts connections again and goes
\* on producing trades, a Distributor whose stream is backing off comes to
\* pull a quote again (which it forwards or drops), unless the session has
\* cancelled it first.
C32_UpstreamFailureNotSurfaced ==
    /\ [][\A t \in TaskIds :
            (/\ provider = "binance"
             /\ tasks[t].state = "pull" /\ tasks[t].phase \in {"connecting", "open"}
             /\ tasks'[t] # tasks[t]
             /\ tasks'[t].phase \notin {"open", "connecting"}
             /\ ~tasks[t].must_cancel)
                => /\ sent' = NoFrame
                   /\ tasks'[t] = [tasks[t] EXCEPT !.phase = "backoff"]
         ]_vars
    /\ \A t \in TaskIds :
        BackingOff(t) ~>
            \/ tasks[t].state = "send"
            \/ tasks[t].state = "pull" /\ tasks[t].phase = "open" /\ dropped # {}
            \/ tasks[t].must_cancel

\* The stream of the assigned Distributor has lost its connection or failed
\* to connect: the Distributor is still pulling and no frame was sent.
C32_Witness ==
    /\ pc = "recv"
    /\ stream_task # None
    /\ BackingOff(stream_task)
    /\ sent = NoFrame

\* C33: whenever the session waits for the next control message, a
\* Distributor is assigned to it if and only if the desired symbol set is
\* non-empty.
C33_AssignedIffSubscribed ==
    pc = "recv" => ((stream_task # None) <=> (active_subscriptions # {}))

\* C34: when the rule list of one evaluate call holds several enabled
\* pct_move rules for the quote's symbol, the pct_move rules returned are
\* those of them whose own threshold the change from the price stored before
\* the call reaches, given that a price was stored: each fires on its own,
\* whatever the other rules and their order.
C34_PctRulesIndependent ==
    [][LET quote == ev'.quote
           p1 == previous_prices[quote.symbol]
           p2 == quote.price
           IsPct(rule) == /\ rule.enabled
                          /\ rule.symbol = quote.symbol
                          /\ rule.kind = "pct_move"
           Fires(rule) == /\ IsPct(rule)
                          /\ p1 # NoPrice
                          /\ Abs(p2 - p1) * 100 >= rule.threshold * p1
       IN (Evaluates /\ Len(SelectSeq(ev'.rules, IsPct)) >= 2) =>
            SelectSeq(ev'.triggered, IsPct) = SelectSeq(ev'.rules, Fires)
      ]_vars

\* C35: a step in which the Distributor hands a quote frame to send_json
\* has called the evaluation step for that quote with the enabled rules of
\* its symbol, the rules whose price condition holds have triggered, and a
\* notification task has been created for every one of them: the deliveries
\* of a quote exist, not yet started, when its frame is sent.
C35_EvaluateDispatchForward ==
    [][(sent'.type = "quote" /\ tasks'[1] # tasks[1]) =>
        LET n == Len(ev'.triggered) IN
        /\ ev'.op = "_evaluate_quote"
        /\ ev'.quote.symbol = sent'.symbol
        /\ ev'.rules = GetBySymbol(alert_rules, sent'.symbol)
        /\ \A i \in DOMAIN ev'.rules :
            ev'.rules[i] \in Range(ev'.triggered)
                <=> PriceReached(ev'.rules[i].kind, ev'.quote.price,
                                 ev'.rules[i].threshold)
        /\ Len(deliveries') >= n
        /\ \A k \in (Len(deliveries') - n + 1)..Len(deliveries') :
            deliveries'[k].state = "created"
      ]_vars

\* The frame of a quote that triggered one alert is being sent and the
\* delivery of the alert is the only one in flight, created and not started.
C35_Witness ==
    /\ sent.type = "quote"
    /\ tasks[1].state = "send"
    /\ ev.quote.symbol = sent.symbol
    /\ Len(ev.triggered) = 1
    /\ deliveries = <<NewDelivery>>

\* The step is the Distributor taking a quote from the source: it forwards
\* the quote or drops it.
PullsQuote == tasks[1].state = "pull" /\ (tasks'[1].state = "send" \/ dropped' # {})

\* C39: every quote a running Distributor pulls is evaluated against the
\* enabled rules of its symbol, and one notification task is created for
\* every rule whose condition holds, also when the symbol has been
\* unsubscribed in the meantime and the quote is dropped instead of
\* forwarded.
C39_EvaluatedThoughDropped ==
    [][PullsQuote =>
        LET symbol == ev'.quote.symbol IN
        /\ ev'.op = "_evaluate_quote"
        /\ IF symbol \in active_subscriptions
           THEN sent' = QuoteFrame(symbol) /\ dropped' = {}
           ELSE sent' = NoFrame /\ dropped' = {symbol}
        /\ ev'.rules = GetBySymbol(alert_rules, symbol)
        /\ \A i \in DOMAIN ev'.rules :
            PriceReached(ev'.rules[i].kind, ev'.quote.price, ev'.rules[i].threshold)
                => ev'.rules[i] \in Range(ev'.triggered)
        /\ deliveries' =
            deliveries \o [k \in 1..Len(ev'.triggered) |-> NewDelivery]
      ]_vars

\* A quote of a symbol the session has unsubscribed was pulled and dropped,
\* both rules of the symbol triggered and their two deliveries were created.
C39_Witness ==
    /\ pc = "unsub_ack"
    /\ tasks[1].state = "pull"
    /\ dropped = {ev.quote.symbol}
    /\ ev.quote.symbol \notin active_subscriptions
    /\ Len(ev.triggered) = 2
    /\ Len(deliveries) >= 2
    /\ deliveries[Len(deliveries)].state = "created"
    /\ deliveries[Len(deliveries) - 1].state = "created"

\* C36: a Binance stream never goes from an established connection straight
\* to a new connection attempt: after the loss of a connection, however it
\* was closed, it first waits.
C36_WaitBeforeReconnect ==
    [][(provider = "binance" /\ conn.phase = "open") => conn'.phase # "connecting"
      ]_vars

\* C37: whenever the session waits for the next control message with a
\* Distributor assigned whose source stream has been started, the symbols
\* that stream was started with are the desired set as it is now.
C37_BoundToDesiredSet ==
    (/\ pc = "recv"
     /\ stream_task # None
     /\ tasks[stream_task].state \in {"pull", "send"})
        => Range(tasks[stream_task].subs) = active_subscriptions

\* C40: the receipt of a JSON object whose action is none of subscribe,
\* unsubscribe and ping hands no frame to send_json, leaves the desired set,
\* the assigned Distributor and every task as they are, and leaves the
\* session waiting for the next message.
C40_UnknownActionIgnored ==
    [][(/\ pc = "recv"
        /\ msg' # msg
        /\ msg'.json = "object"
        /\ msg'.action \notin {"subscribe", "unsubscribe", "ping"}) =>
            /\ sent' = NoFrame
            /\ pc' = "recv"
            /\ DistributorUntouched
      ]_vars

\* A message with an unknown action was the last one read by a session that
\* is streaming both symbols: nothing was sent for it and the session waits.
C40_Witness ==
    /\ pc = "recv"
    /\ msg.json = "object" /\ msg.action = "other"
    /\ active_subscriptions = Symbols
    /\ stream_task \in Running
    /\ sent = NoFrame

\* C38: once the control loop of the session has ended, by a disconnect
\* reported to a read or by a failed send, the Distributor assigned to the
\* session has been cancelled.
C38_CancelledOnEveryExit ==
    pc \in {"closed", "raised"} =>
        (stream_task = None \/ tasks[stream_task].cancel_event)

====
